---- MODULE Spec2Model ----
(***************************************************************************)
(* A model of the PyTgCalls documentation indexer:                         *)
(*   - parse_config (.github/scripts/gen.py): the reference resolver,      *)
(*     modelled step by step with its recursion stack;                     *)
(*   - parse_map (.github/scripts/gen.py): the record builder;             *)
(*   - DocSearch (src/modules/search.py): the record scorer and ranker.    *)
(* Python strings are TLA+ strings; slicing is SubSeq, + is \o.            *)
(***************************************************************************)
EXTENDS Integers, Sequences, FiniteSets, TLC

VARIABLES
    root,        \* parse_config: the parsed config document (its options)
    cfgPc,       \* parse_config: "loop" while resolving, "done" after return
    optIdx,      \* parse_config: position of the for-loop over the options
    stack,       \* parse_config: the frames of the nested resolve() calls
    seen,        \* parse_config: the seen set of the running resolution
    config_map,  \* parse_config: the id -> resolved text table built so far
    raw_map,     \* parse_map: the (path, page) pairs of the input map
    mapIdx,      \* parse_map: position of the for-loop over raw_map
    mapPc,       \* parse_map: "loop" while converting, "done" after return, "raised"
    docs,        \* parse_map: the path -> record table built so far
    entries,     \* DocSearch: the entries loaded by __init__
    query,       \* DocSearch.search: the query of the last call, None before
    limit,       \* DocSearch.search: the limit of the last call
    scored,      \* DocSearch.search: the sorted (score, entry) list
    result,      \* DocSearch.search: the returned list
    snapshot,    \* DocSearch.__init__: the (path, value) pairs of the snapshot
    loadIdx,     \* DocSearch.__init__: position of the for-loop over the snapshot
    loadPc,      \* DocSearch.__init__: "loop", "done" after return, "raised"
    fmtRecord,   \* format_doc_info: the record r to render
    include_raises, \* format_doc_info: the flag of the call
    output,      \* format_doc_info: the returned text, None before the call
    inlineQuery, \* inline_search: message.query
    search_results, \* inline_search: the rendered text of each search result
    inlineIdx,   \* inline_search: position of the for-loop over search_results
    handed,      \* inline_search: the texts passed to the client so far
    results,     \* inline_search: the texts of the articles built so far
    inlinePc,    \* inline_search: "start", "loop", "done"
    docs_map,    \* Search: the (path, content) pairs of the loaded map
    coreQuery,   \* Search.search: the query argument
    coreLimit,   \* Search.search: the limit argument
    coreIdx,     \* Search.search: position of the for-loop over docs_map
    pageScore,   \* Search.search: the score of the page scored last, -1 before
    coreResults, \* Search.search: the results list
    corePc       \* Search.search: "call", "loop", "returned"

vars == <<root, cfgPc, optIdx, stack, seen, config_map,
          raw_map, mapIdx, mapPc, docs,
          entries, query, limit, scored, result,
          snapshot, loadIdx, loadPc, fmtRecord, include_raises, output,
          inlineQuery, search_results, inlineIdx, handed, results, inlinePc,
          docs_map, coreQuery, coreLimit, coreIdx, pageScore, coreResults, corePc>>

cfgVars == <<root, cfgPc, optIdx, stack, seen, config_map>>
mapVars == <<raw_map, mapIdx, mapPc, docs>>
searchVars == <<entries, query, limit, scored, result>>
loadVars == <<snapshot, loadIdx, loadPc>>
fmtVars == <<fmtRecord, include_raises, output>>
inlineVars == <<inlineQuery, search_results, inlineIdx, handed, results, inlinePc>>
coreVars == <<docs_map, coreQuery, coreLimit, coreIdx, pageScore, coreResults, corePc>>

None == "<None>"

(***************************************************************************)
(* Python string operations                                                *)
(***************************************************************************)
\* sub in s
Contains(sub, s) ==
    \E i \in 1..(Len(s) - Len(sub) + 1) : SubSeq(s, i, i + Len(sub) - 1) = sub

\* s.startswith(p)
StartsWith(s, p) == Len(p) <= Len(s) /\ SubSeq(s, 1, Len(p)) = p

\* s.endswith(p)
EndsWith(s, p) == Len(p) <= Len(s) /\ SubSeq(s, Len(s) - Len(p) + 1, Len(s)) = p

CharAt(s, i) == SubSeq(s, i, i)

\* str.isspace() of one character
IsSpace(c) == c \in {" ", "\n", "\t"}

\* s.lstrip(chars) for a set of characters
RECURSIVE LStripSet(_, _)
LStripSet(s, cs) ==
    IF Len(s) > 0 /\ CharAt(s, 1) \in cs
    THEN LStripSet(SubSeq(s, 2, Len(s)), cs)
    ELSE s

\* s.rstrip(chars) for a set of characters
RECURSIVE RStripSet(_, _)
RStripSet(s, cs) ==
    IF Len(s) > 0 /\ CharAt(s, Len(s)) \in cs
    THEN RStripSet(SubSeq(s, 1, Len(s) - 1), cs)
    ELSE s

\* s.strip()
Strip(s) == RStripSet(LStripSet(s, {" ", "\n", "\t"}), {" ", "\n", "\t"})

\* s.strip("\n")
StripNL(s) == RStripSet(LStripSet(s, {"\n"}), {"\n"})

\* "\n".join(parts) and " ".join(parts)
RECURSIVE Join(_, _)
Join(sep, parts) ==
    IF parts = <<>> THEN ""
    ELSE IF Len(parts) = 1 THEN parts[1]
    ELSE parts[1] \o sep \o Join(sep, Tail(parts))

\* [p for p in parts if p]
RECURSIVE NonEmpty(_)
NonEmpty(parts) ==
    IF parts = <<>> THEN <<>>
    ELSE IF parts[1] = "" THEN NonEmpty(Tail(parts))
    ELSE <<parts[1]>> \o NonEmpty(Tail(parts))

\* s.split("\n")
RECURSIVE SplitLines(_)
SplitLines(s) ==
    IF \E i \in 1..Len(s) : CharAt(s, i) = "\n"
    THEN LET i == CHOOSE i \in 1..Len(s) :
                    CharAt(s, i) = "\n" /\ \A j \in 1..(i - 1) : CharAt(s, j) # "\n"
         IN <<SubSeq(s, 1, i - 1)>> \o SplitLines(SubSeq(s, i + 1, Len(s)))
    ELSE <<s>>

\* the run of spaces and tabs a line starts with
LeadingWS(line) == SubSeq(line, 1, Len(line) - Len(LStripSet(line, {" ", "\t"})))

\* a line of spaces and tabs only (or an empty line)
IsBlankLine(line) == LStripSet(line, {" ", "\t"}) = ""

\* length of the longest common prefix of two strings
CommonPrefixLen(a, b) ==
    CHOOSE n \in 0..Len(a) :
        /\ n <= Len(b)
        /\ SubSeq(a, 1, n) = SubSeq(b, 1, n)
        /\ \/ n = Len(a) \/ n = Len(b)
           \/ CharAt(a, n + 1) # CharAt(b, n + 1)

\* margin of textwrap.dedent: the longest common leading whitespace of the
\* lines that are not blank
RECURSIVE MarginOf(_, _)
MarginOf(lines, margin) ==
    IF lines = <<>> THEN margin
    ELSE IF IsBlankLine(lines[1]) THEN MarginOf(Tail(lines), margin)
    ELSE IF margin = None THEN MarginOf(Tail(lines), LeadingWS(lines[1]))
    ELSE MarginOf(Tail(lines),
                  SubSeq(margin, 1, CommonPrefixLen(margin, LeadingWS(lines[1]))))

\* textwrap.dedent(s)
Dedent(s) ==
    LET lines == SplitLines(s)
        m == MarginOf(lines, None)
        cut == IF m = None THEN 0 ELSE Len(m)
    IN Join("\n", [k \in 1..Len(lines) |->
                     IF IsBlankLine(lines[k]) THEN ""
                     ELSE SubSeq(lines[k], cut + 1, Len(lines[k]))])

\* re.sub(r'\s+', ' ', s)
RECURSIVE CollapseWS(_)
CollapseWS(s) ==
    IF s = "" THEN ""
    ELSE IF IsSpace(CharAt(s, 1))
         THEN " " \o CollapseWS(LStripSet(s, {" ", "\n", "\t"}))
         ELSE CharAt(s, 1) \o CollapseWS(SubSeq(s, 2, Len(s)))

UpperCase == "ABCDEFGHIJKLMNOPQRSTUVWXYZ"
LowerCase == "abcdefghijklmnopqrstuvwxyz"

\* str.lower() of one character
LowerChar(c) ==
    IF \E i \in 1..Len(UpperCase) : CharAt(UpperCase, i) = c
    THEN CharAt(LowerCase, CHOOSE i \in 1..Len(UpperCase) : CharAt(UpperCase, i) = c)
    ELSE c

\* s.lower()
RECURSIVE Lower(_)
Lower(s) ==
    IF s = "" THEN ""
    ELSE IF Len(s) = 1 THEN LowerChar(s)
    ELSE Lower(SubSeq(s, 1, Len(s) \div 2)) \o Lower(SubSeq(s, Len(s) \div 2 + 1, Len(s)))

\* str.upper() of one character
UpperChar(c) ==
    IF \E i \in 1..Len(LowerCase) : CharAt(LowerCase, i) = c
    THEN CharAt(UpperCase, CHOOSE i \in 1..Len(LowerCase) : CharAt(LowerCase, i) = c)
    ELSE c

\* s.upper()
RECURSIVE Upper(_)
Upper(s) ==
    IF s = "" THEN "" ELSE UpperChar(CharAt(s, 1)) \o Upper(SubSeq(s, 2, Len(s)))

\* s.find(sep) + 1: the position of the first occurrence of sep, 0 without one
IndexOf(sep, s) ==
    IF Contains(sep, s)
    THEN CHOOSE i \in 1..Len(s) :
            /\ SubSeq(s, i, i + Len(sep) - 1) = sep
            /\ \A j \in 1..(i - 1) : SubSeq(s, j, j + Len(sep) - 1) # sep
    ELSE 0

\* s.split(sep, 1)[0] and s.partition(sep)[0]
Before(sep, s) ==
    IF Contains(sep, s) THEN SubSeq(s, 1, IndexOf(sep, s) - 1) ELSE s

\* s.split(sep, 1)[1] and s.partition(sep)[2]; "" without a separator
After(sep, s) ==
    IF Contains(sep, s) THEN SubSeq(s, IndexOf(sep, s) + Len(sep), Len(s)) ELSE ""

\* (x or "")
OrEmpty(x) == IF x = None THEN "" ELSE x

EmptyMap == [k \in {} |-> ""]

(***************************************************************************)
(* parse_config: the reference resolver                                    *)
(***************************************************************************)
MaxChildren == 2      \* children per option
MaxDepth == 4         \* nesting of resolve() calls the model follows

OptionIds == <<"A", "B">>                \* the options, in document order
RefIds == {"A", "B", "Z"}                \* "Z" names no option
Literals == {" x", " "}                  \* itertext() of a non-reference child

ConfigChild(i) == [tag |-> "config", id |-> i, text |-> ""]
TextChild(t) == [tag |-> "text", id |-> "", text |-> t]
Children == {ConfigChild(i) : i \in RefIds} \cup {TextChild(t) : t \in Literals}
KidSeqs == UNION {[1..n -> Children] : n \in 0..MaxChildren}

\* root.find(f"option[@id='{ref_id}']"): index of the first option, 0 if none
FindOption(r, ref_id) ==
    IF \E k \in 1..Len(r) : r[k].id = ref_id
    THEN CHOOSE k \in 1..Len(r) :
            r[k].id = ref_id /\ \A j \in 1..(k - 1) : r[j].id # ref_id
    ELSE 0

\* if ref_id in seen
AlreadySeenNever(ref_id, s) == FALSE
AlreadySeen(ref_id, s) == ref_id \in s

\* f"[UNRESOLVED:{ref_id}]"
UnresolvedNoId(ref_id) == "[UNRESOLVED:{ref_id}]"
Unresolved(ref_id) == "[UNRESOLVED:" \o ref_id \o "]"

\* if seen is None: seen = set()
SeenCarriedOver(s) == s
FreshSeen(s) == {}

\* return "\n".join([p for p in parts if p])
ResolveReturnKeepEmpty(parts) == Join("\n", parts)
ResolveReturn(parts) == Join("\n", NonEmpty(parts))

Frame(k) == [node |-> k, i |-> 1, parts |-> <<>>]
Top == stack[Len(stack)]
TopChild == root[Top.node].kids[Top.i]
HasChild == stack # <<>> /\ Top.i <= Len(root[Top.node].kids)
Advance(parts) == [stack EXCEPT ![Len(stack)] =
                        [@ EXCEPT !.i = @ + 1, !.parts = parts]]

InitConfigVars ==
    /\ root \in {<<[id |-> OptionIds[1], kids |-> ka],
                   [id |-> OptionIds[2], kids |-> kb]>> :
                        ka \in KidSeqs, kb \in KidSeqs}
    /\ cfgPc = "loop"
    /\ optIdx = 1
    /\ stack = <<>>
    /\ seen = {}
    /\ config_map = EmptyMap

\* for option in root.findall("option"): ... resolve(option)
CallResolve ==
    /\ cfgPc = "loop" /\ stack = <<>> /\ optIdx <= Len(root)
    /\ stack' = <<Frame(optIdx)>>
    /\ seen' = FreshSeen(seen)
    /\ UNCHANGED <<root, cfgPc, optIdx, config_map>>

\* a config child whose id is in seen: continue
ChildSeen ==
    /\ cfgPc = "loop" /\ HasChild
    /\ TopChild.tag = "config"
    /\ AlreadySeen(TopChild.id, seen)
    /\ stack' = Advance(Top.parts)
    /\ UNCHANGED <<root, cfgPc, optIdx, seen, config_map>>

\* a config child naming an existing option: recurse into it
ChildRef ==
    /\ cfgPc = "loop" /\ HasChild
    /\ TopChild.tag = "config"
    /\ ~AlreadySeen(TopChild.id, seen)
    /\ FindOption(root, TopChild.id) # 0
    /\ Len(stack) < MaxDepth
    /\ seen' = seen \cup {TopChild.id}
    /\ stack' = Append(stack, Frame(FindOption(root, TopChild.id)))
    /\ UNCHANGED <<root, cfgPc, optIdx, config_map>>

\* a config child naming no option: the placeholder
ChildUnresolved ==
    /\ cfgPc = "loop" /\ HasChild
    /\ TopChild.tag = "config"
    /\ ~AlreadySeen(TopChild.id, seen)
    /\ FindOption(root, TopChild.id) = 0
    /\ seen' = seen \cup {TopChild.id}
    /\ stack' = Advance(Append(Top.parts, Unresolved(TopChild.id)))
    /\ UNCHANGED <<root, cfgPc, optIdx, config_map>>

\* any other child: its stripped text
ChildText ==
    /\ cfgPc = "loop" /\ HasChild
    /\ TopChild.tag # "config"
    /\ stack' = Advance(Append(Top.parts, Strip(TopChild.text)))
    /\ UNCHANGED <<root, cfgPc, optIdx, seen, config_map>>

\* return of a nested resolve(): parts.append(resolve(ref_node, seen))
ReturnNested ==
    /\ cfgPc = "loop" /\ Len(stack) > 1 /\ ~HasChild
    /\ LET below == stack[Len(stack) - 1]
           rest == SubSeq(stack, 1, Len(stack) - 2)
       IN stack' = Append(rest,
                     [below EXCEPT !.i = @ + 1,
                                   !.parts = Append(@, ResolveReturn(Top.parts))])
    /\ UNCHANGED <<root, cfgPc, optIdx, seen, config_map>>

\* return of the outermost resolve(): config_map[cid] = resolve(option)
ReturnTop ==
    /\ cfgPc = "loop" /\ Len(stack) = 1 /\ ~HasChild
    /\ config_map' = [k \in DOMAIN config_map \cup {root[Top.node].id} |->
                        IF k = root[Top.node].id THEN ResolveReturn(Top.parts)
                        ELSE config_map[k]]
    /\ stack' = <<>>
    /\ optIdx' = optIdx + 1
    /\ UNCHANGED <<root, cfgPc, seen>>

\* return config_map
ReturnConfigMap ==
    /\ cfgPc = "loop" /\ stack = <<>> /\ optIdx > Len(root)
    /\ cfgPc' = "done"
    /\ UNCHANGED <<root, optIdx, stack, seen, config_map>>

IdleMap == raw_map = <<>> /\ mapIdx = 1 /\ mapPc = "idle" /\ docs = EmptyMap
IdleSearch ==
    /\ entries = <<>> /\ query = None /\ limit = 0
    /\ scored = <<>> /\ result = <<>>
IdleConfig ==
    /\ root = <<>> /\ cfgPc = "idle" /\ optIdx = 1
    /\ stack = <<>> /\ seen = {}
IdleLoad == snapshot = <<>> /\ loadIdx = 1 /\ loadPc = "idle"
IdleFormat == fmtRecord = None /\ include_raises = FALSE /\ output = None
IdleInline ==
    /\ inlineQuery = "" /\ search_results = <<>> /\ inlineIdx = 1
    /\ handed = <<>> /\ results = <<>> /\ inlinePc = "idle"
IdleCore ==
    /\ docs_map = <<>> /\ coreQuery = "" /\ coreLimit = 0 /\ coreIdx = 1
    /\ pageScore = -1 /\ coreResults = <<>> /\ corePc = "idle"

NextConfig ==
    \/ CallResolve /\ UNCHANGED <<mapVars, searchVars, loadVars, fmtVars, inlineVars, coreVars>>
    \/ ChildSeen /\ UNCHANGED <<mapVars, searchVars, loadVars, fmtVars, inlineVars, coreVars>>
    \/ ChildRef /\ UNCHANGED <<mapVars, searchVars, loadVars, fmtVars, inlineVars, coreVars>>
    \/ ChildUnresolved /\ UNCHANGED <<mapVars, searchVars, loadVars, fmtVars, inlineVars, coreVars>>
    \/ ChildText /\ UNCHANGED <<mapVars, searchVars, loadVars, fmtVars, inlineVars, coreVars>>
    \/ ReturnNested /\ UNCHANGED <<mapVars, searchVars, loadVars, fmtVars, inlineVars, coreVars>>
    \/ ReturnTop /\ UNCHANGED <<mapVars, searchVars, loadVars, fmtVars, inlineVars, coreVars>>
    \/ ReturnConfigMap /\ UNCHANGED <<mapVars, searchVars, loadVars, fmtVars, inlineVars, coreVars>>

InitConfig ==
    InitConfigVars /\ IdleMap /\ IdleSearch /\ IdleLoad /\ IdleFormat /\ IdleInline /\ IdleCore

SpecConfig == InitConfig /\ [][NextConfig]_vars

FairSpecConfig == SpecConfig /\ WF_vars(NextConfig)

(***************************************************************************)
(* parse_map: the record builder                                           *)
(***************************************************************************)
MaxSegments == 2      \* directory segments of a path
MaxNodes == 2         \* top-level nodes of a page body
MaxItems == 2         \* children of the block of a generated section
MaxLines == 2         \* lines of the code of a generated example

\* ---- XML elements: tag, id attribute, text, child elements
Node(tag, id, text, kids) == [tag |-> tag, id |-> id, text |-> text, kids |-> kids]
H1(t) == Node("h1", None, t, <<>>)
TextNode(t) == Node("text", None, t, <<>>)
ConfigNode(i) == Node("config", i, "", <<>>)
SubtextNode(kids) == Node("subtext", None, "", kids)
PageNode(kids) == Node("page", None, "", kids)
PgTitle(t) == Node("pg-title", None, t, <<>>)
TitleNode(t) == Node("category-title", None, t, <<>>)
CategoryNode(kids) == Node("category", None, "", kids)
\* a syntax-highlight element; language None stands for no language attribute
SyntaxNode(language, code) ==
    [tag |-> "syntax-highlight", id |-> None, text |-> code, kids |-> <<>>,
     language |-> language]

\* node.findall(tag)
FindAll(node, tag) == SelectSeq(node.kids, LAMBDA k : k.tag = tag)

\* node.find(tag) is not None
HasTag(node, tag) == FindAll(node, tag) # <<>>

\* node.find(tag)
Find(node, tag) == FindAll(node, tag)[1]

\* node.findtext(tag, default)
FindText(node, tag, default) ==
    IF HasTag(node, tag) THEN Find(node, tag).text ELSE default

\* concatenation of a sequence of sequences
RECURSIVE Flatten(_)
Flatten(ss) == IF ss = <<>> THEN <<>> ELSE ss[1] \o Flatten(Tail(ss))

\* node.iter(): the node and its descendants in document order
RECURSIVE Iter(_)
Iter(node) ==
    <<node>> \o Flatten([k \in 1..Len(node.kids) |-> Iter(node.kids[k])])

\* config_map.get(cid, default)
CfgGet(cm, cid, default) == IF cid \in DOMAIN cm THEN cm[cid] ELSE default

\* ---- library and path suffix (gen.py 296-304)
LibOf(path) ==
    IF StartsWith(path, "/NTgCalls/") THEN "NTgCalls"
    ELSE IF StartsWith(path, "/PyTgCalls/") THEN "PyTgCalls"
    ELSE "Unknown"

PathSuffix(path) ==
    IF StartsWith(path, "/NTgCalls/")
    THEN SubSeq(path, Len("/NTgCalls/") + 1, Len(path))
    ELSE IF StartsWith(path, "/PyTgCalls/")
    THEN SubSeq(path, Len("/PyTgCalls/") + 1, Len(path))
    ELSE path

\* ---- kind (gen.py 306-317)
KindMethodFirst(path) ==
    IF Contains("Methods", path) THEN "method"
    ELSE IF Contains("Available Enums", path) THEN "enum"
    ELSE IF Contains("Available Structs", path) THEN "struct"
    ELSE IF Contains("Available Types", path) \/ Contains("Advanced Types", path)
         THEN "type"
    ELSE IF Contains("Stream Descriptors", path) THEN "descriptor"
    ELSE "misc"
KindOf(path) ==
    IF Contains("Available Enums", path) THEN "enum"
    ELSE IF Contains("Methods", path) THEN "method"
    ELSE IF Contains("Available Structs", path) THEN "struct"
    ELSE IF Contains("Available Types", path) \/ Contains("Advanced Types", path)
         THEN "type"
    ELSE IF Contains("Stream Descriptors", path) THEN "descriptor"
    ELSE "misc"

\* ---- description (gen.py 319-337, 379-391, 397-403)
\* extract_full_description(page)
ExtractFullDescription(page, cm) ==
    LET nodes == Iter(page)
        part(n) ==
            IF n.tag = "config"
            THEN IF n.id # None /\ n.id # ""
                 THEN <<CfgGet(cm, n.id, Unresolved(n.id))>> ELSE <<>>
            ELSE IF n.tag = "text" /\ n.text # ""
                 THEN <<Strip(n.text)>> ELSE <<>>
    IN Strip(Join(" ", Flatten([k \in 1..Len(nodes) |-> part(nodes[k])])))

\* the description before the fallback: lines 319-337
FirstDescription(kind, page, cm) ==
    IF kind = "misc" THEN ExtractFullDescription(page, cm)
    ELSE IF HasTag(page, "config")
         THEN CfgGet(cm, Find(page, "config").id, "")
         ELSE FindText(page, "text", "")

\* one pass of the fallback loop body over a subtext block: lines 382-389
FallbackInBlock(sub, description, cm) ==
    LET texts == SelectSeq(FindAll(sub, "text"),
                           LAMBDA t : t.text # "" /\ Strip(t.text) # "")
        d1 == IF texts # <<>> THEN Strip(texts[1].text) ELSE description
        cfgs == SelectSeq(FindAll(sub, "config"),
                          LAMBDA c : c.id # None /\ c.id # "")
    IN IF cfgs # <<>>
       THEN CfgGet(cm, cfgs[Len(cfgs)].id, Unresolved(cfgs[Len(cfgs)].id))
       ELSE d1

\* for sub in page.findall("subtext"): ... if description: break
RECURSIVE FallbackLoop(_, _, _)
FallbackLoop(subs, description, cm) ==
    IF subs = <<>> THEN description
    ELSE LET d == FallbackInBlock(subs[1], description, cm)
         IN IF d # "" THEN d ELSE FallbackLoop(Tail(subs), d, cm)

\* if not description: ... (lines 379-391)
WithFallback(description, page, cm) ==
    IF description = ""
    THEN FallbackLoop(FindAll(page, "subtext"), description, cm)
    ELSE description

\* (description or " ").strip()
DefaultDescription(description) ==
    Strip(IF description = "" THEN " " ELSE description)

\* lines 397-398 and 403
NormalizeDescription(description) ==
    DefaultDescription(Strip(CollapseWS(StripNL(Dedent(description)))))

\* ---- documentation URL (gen.py 393-395)
StripXmlRstrip(path_suffix) == RStripSet(path_suffix, {".", "x", "m", "l"})
StripXml(path_suffix) ==
    IF EndsWith(path_suffix, ".xml")
    THEN SubSeq(path_suffix, 1, Len(path_suffix) - 4)
    ELSE path_suffix

DocUrl(path) ==
    "https://pytgcalls.github.io/" \o LibOf(path) \o "/" \o StripXml(PathSuffix(path))

\* ---- DocItem (gen.py 10-27): the dict of one documented element
DocItem(name, type_, description, source_config, value) ==
    [name |-> name, type |-> type_, description |-> description,
     source_config |-> source_config, value |-> value]

\* "".join(node.itertext()): the text of the node and of its descendants
RECURSIVE IterText(_)
IterText(node) ==
    node.text \o Join("", [k \in 1..Len(node.kids) |-> IterText(node.kids[k])])

\* seq[-1]["description"] = description
SetLastDescription(res, description) ==
    [res EXCEPT ![Len(res)].description = description]

\* ---- normalize_items (gen.py 73-97)
\* result[-1]["description"] += " " + text (res is the list result)
ContinueAsNewItem(res, text) ==
    Append(res, DocItem("", None, text, None, None))
Continue(res, text) ==
    SetLastDescription(res, res[Len(res)].description \o " " \o text)

\* the branch of an item with a "resolved" key: lines 78-88
NormalizeResolvedWholeName(res, item) ==
    Append(res, DocItem(Before("\n", Strip(item.resolved)), None,
                        OrEmpty(None), item.config_id, None))
NormalizeResolved(res, item) ==
    LET text == Strip(item.resolved)
        first_line == Before("\n", text)
        desc == IF Contains("\n", text) THEN Strip(After("\n", text)) ELSE ""
    IN IF Contains(":", first_line)
       THEN Append(res, DocItem(Strip(Before(":", first_line)),
                                   Strip(After(":", first_line)),
                                   desc, item.config_id, None))
       ELSE IF res # <<>> THEN Continue(res, text)
       ELSE Append(res, DocItem("", None, text, item.config_id, None))

\* the branch of an item with a "raw" key: lines 90-91
NormalizeRaw(res, item) ==
    LET typ == After(":", item.raw)
    IN Append(res, DocItem(Strip(Before(":", item.raw)),
                              IF typ # "" THEN Strip(typ) ELSE None,
                              "", None, None))

\* the branch of an item with a "text" key: lines 93-96
NormalizeText(res, item) ==
    IF res # <<>> THEN Continue(res, Strip(item.text))
    ELSE Append(res, DocItem("", None, Strip(item.text), None, None))

RECURSIVE NormalizeLoop(_, _)
NormalizeLoop(res, items) ==
    IF items = <<>> THEN res
    ELSE LET item == items[1]
             next == IF "resolved" \in DOMAIN item THEN NormalizeResolved(res, item)
                     ELSE IF "raw" \in DOMAIN item THEN NormalizeRaw(res, item)
                     ELSE IF "text" \in DOMAIN item THEN NormalizeText(res, item)
                     ELSE res
         IN NormalizeLoop(next, Tail(items))

normalize_items(items) == NormalizeLoop(<<>>, items)

\* ---- example (gen.py 339-345)
\* ex_node.attrib.get("language", "python")
LanguageOf(ex_node) ==
    IF ex_node.language = None THEN "python" ELSE ex_node.language

\* textwrap.dedent(code_raw).strip("\n")
CodeCleanStripOnly(code_raw) == Strip(code_raw)
CodeClean(code_raw) == StripNL(Dedent(code_raw))

ExampleOf(page) ==
    IF HasTag(page, "syntax-highlight")
    THEN LET ex_node == Find(page, "syntax-highlight")
         IN [language |-> LanguageOf(ex_node), code |-> CodeClean(IterText(ex_node))]
    ELSE EmptyMap

\* ---- sections (gen.py 347-366)
\* page.findall(".//category"): the category elements below the page
Categories(page) == SelectSeq(Tail(Iter(page)), LAMBDA n : n.tag = "category")

\* the raw item one child of a subtext block gives: lines 354-364
RawItem(item, cm) ==
    IF item.tag = "config"
    THEN <<[config_id |-> item.id,
            resolved |-> CfgGet(cm, item.id, Unresolved(item.id))]>>
    ELSE IF item.tag = "category-title"
    THEN <<[raw |-> Strip(IterText(item))]>>
    ELSE IF item.tag = "text" /\ item.text # ""
    THEN <<[text |-> Strip(item.text)]>>
    ELSE <<>>

\* raw_items of one category: lines 351-364
RawItems(cat, cm) ==
    LET subs == FindAll(cat, "subtext")
    IN Flatten([i \in 1..Len(subs) |->
                  Flatten([j \in 1..Len(subs[i].kids) |->
                             RawItem(subs[i].kids[j], cm)])])

RECURSIVE SectionLoop(_, _, _)
SectionLoop(sections, cats, cm) ==
    IF cats = <<>> THEN sections
    ELSE LET norm_items == normalize_items(RawItems(cats[1], cm))
             section == [title |-> Strip(FindText(cats[1], "pg-title", "")),
                         items |-> norm_items]
         IN SectionLoop(IF norm_items # <<>> THEN Append(sections, section)
                        ELSE sections,
                        Tail(cats), cm)

SectionsOf(page, cm) == SectionLoop(<<>>, Categories(page), cm)

\* ---- parse_type_page (gen.py 101-283)
\* the lists the page walk fills and the item "current" points at: None, or
\* the list it was appended to and its position there
TypePageState(members, properties, parameters, description_parts, current) ==
    [members |-> members, properties |-> properties, parameters |-> parameters,
     description_parts |-> description_parts, current |-> current]

\* members.append(current), properties.append(current), parameters.append(current)
NewCurrent(st, field, item) ==
    [st EXCEPT ![field] = Append(@, item),
               !.current = <<field, Len(st[field]) + 1>>]

\* " ".join(t.strip() for t in child.itertext() if t.strip())
DescTxt(child) ==
    LET nodes == Iter(child)
    IN Join(" ", NonEmpty([k \in 1..Len(nodes) |-> Strip(nodes[k].text)]))

\* if current: current["description"] = ... else: description_parts.append(t)
Attach(st, t) ==
    IF st.current # None
    THEN LET field == st.current[1]
             i == st.current[2]
             cur_desc == Strip(OrEmpty(st[field][i].description))
         IN [st EXCEPT ![field][i].description =
                IF cur_desc # "" THEN Strip(cur_desc \o " " \o t) ELSE t]
    ELSE [st EXCEPT !.description_parts = Append(@, t)]

\* the subtext, config and text branches the three handlers share
HandleOther(st, child, cm) ==
    IF child.tag = "subtext"
    THEN IF DescTxt(child) # "" THEN Attach(st, DescTxt(child)) ELSE st
    ELSE IF child.tag = "config"
    THEN Attach(st, Strip(CfgGet(cm, child.id, Unresolved(child.id))))
    ELSE IF child.tag = "text"
    THEN IF Strip(child.text) # "" THEN Attach(st, Strip(child.text)) ELSE st
    ELSE st

\* the item of a category-title in an ENUMERATION MEMBERS block: lines 121-126
MemberOfTitle(child) ==
    LET raw == Strip(IterText(child))
    IN IF Contains("=", raw)
       THEN DocItem(Strip(Before("=", raw)), None, "", None, Strip(After("=", raw)))
       ELSE DocItem(Strip(raw), None, "", None, None)

\* the item of a category-title in a PROPERTIES block: lines 165-176
PropertyOfTitle(child) ==
    LET raw == Strip(IterText(child))
        refs == SelectSeq(Tail(Iter(child)), LAMBDA n : n.tag = "docs-ref")
    IN IF Contains("->", raw)
       THEN DocItem(Strip(Strip(Before("->", raw))), Strip(After("->", raw)),
                    "", None, None)
       ELSE DocItem(Strip(raw),
                    IF refs # <<>> THEN Strip(IterText(refs[1])) ELSE None,
                    "", None, None)

\* the item of a category-title in a PARAMETERS block: lines 216-221
ParameterOfTitle(child) ==
    LET raw == Strip(IterText(child))
    IN IF Contains(":", raw)
       THEN DocItem(Strip(Before(":", raw)), Strip(After(":", raw)), "", None, None)
       ELSE DocItem(Strip(raw), None, "", None, None)

RECURSIVE handle_member_block(_, _, _)
handle_member_block(st, kids, cm) ==
    IF kids = <<>> THEN st
    ELSE handle_member_block(
            IF kids[1].tag = "category-title"
            THEN NewCurrent(st, "members", MemberOfTitle(kids[1]))
            ELSE HandleOther(st, kids[1], cm),
            Tail(kids), cm)

RECURSIVE handle_property_block(_, _, _)
handle_property_block(st, kids, cm) ==
    IF kids = <<>> THEN st
    ELSE handle_property_block(
            IF kids[1].tag = "category-title"
            THEN NewCurrent(st, "properties", PropertyOfTitle(kids[1]))
            ELSE HandleOther(st, kids[1], cm),
            Tail(kids), cm)

RECURSIVE handle_param_block(_, _, _)
handle_param_block(st, kids, cm) ==
    IF kids = <<>> THEN st
    ELSE handle_param_block(
            IF kids[1].tag = "category-title"
            THEN NewCurrent(st, "parameters", ParameterOfTitle(kids[1]))
            ELSE HandleOther(st, kids[1], cm),
            Tail(kids), cm)

\* the label of a top-level block: "".join(pg.itertext()).upper(), None
\* without a pg-title
LabelOf(sub) ==
    IF HasTag(sub, "pg-title") THEN Upper(IterText(Find(sub, "pg-title"))) ELSE None

\* which handler the inner blocks of a labelled block go to: lines 253-261
HandlerOf(label) ==
    IF label = None THEN "plain"
    ELSE IF Contains("PARAMETERS", label) THEN "param"
    ELSE IF Contains("ENUMERATION MEMBERS", label) THEN "member"
    ELSE IF Contains("PROPERTIES", label) THEN "property"
    ELSE "plain"

\* for inner in sub.findall("subtext"): handle_..._block(inner)
RECURSIVE InnerBlocks(_, _, _, _)
InnerBlocks(st, inners, handler, cm) ==
    IF inners = <<>> THEN st
    ELSE InnerBlocks(
            IF handler = "param" THEN handle_param_block(st, inners[1].kids, cm)
            ELSE IF handler = "member" THEN handle_member_block(st, inners[1].kids, cm)
            ELSE handle_property_block(st, inners[1].kids, cm),
            Tail(inners), handler, cm)

\* the two else branches, lines 263-268 and 270-275
RECURSIVE PlainBlock(_, _, _)
PlainBlock(st, kids, cm) ==
    IF kids = <<>> THEN st
    ELSE PlainBlock(
            IF kids[1].tag = "config"
            THEN [st EXCEPT !.description_parts =
                     Append(@, CfgGet(cm, kids[1].id, Unresolved(kids[1].id)))]
            ELSE IF kids[1].tag = "text" /\ kids[1].text # ""
            THEN [st EXCEPT !.description_parts = Append(@, Strip(kids[1].text))]
            ELSE st,
            Tail(kids), cm)

\* for sub in page.findall("subtext"): lines 249-275
RECURSIVE WalkBlocks(_, _, _)
WalkBlocks(st, subs, cm) ==
    IF subs = <<>> THEN st
    ELSE WalkBlocks(
            IF HandlerOf(LabelOf(subs[1])) = "plain"
            THEN PlainBlock(st, subs[1].kids, cm)
            ELSE InnerBlocks(st, FindAll(subs[1], "subtext"),
                             HandlerOf(LabelOf(subs[1])), cm),
            Tail(subs), cm)

parse_type_page(page, cm) ==
    LET st == WalkBlocks(TypePageState(<<>>, <<>>, <<>>, <<>>, None),
                         FindAll(page, "subtext"), cm)
    IN [signature |-> IF HasTag(page, "category-title")
                      THEN Strip(IterText(Find(page, "category-title")))
                      ELSE None,
        members |-> st.members,
        properties |-> st.properties,
        parameters |-> st.parameters,
        description |-> Strip(Join(" ", NonEmpty(st.description_parts)))]

\* ---- details (gen.py 347, 368-377): a dict whose optional keys are present
\* only for non-empty lists
OptionalKey(key, list) == IF list # <<>> THEN key :> list ELSE EmptyMap

DetailsOf(page, cm) ==
    LET parsed == parse_type_page(page, cm)
    IN OptionalKey("sections", SectionsOf(page, cm))
        @@ ("signature" :> parsed.signature)
        @@ OptionalKey("members", parsed.members)
        @@ OptionalKey("properties", parsed.properties)
        @@ OptionalKey("parameters", parsed.parameters)

\* ---- KeyError: attrib["id"] on a config element without an id attribute
NoId(n) == n.tag = "config" /\ n.id = None

\* line 335, reached for a page that is not misc
RaisesAtDescription(path, page) ==
    KindOf(path) # "misc" /\ HasTag(page, "config") /\ NoId(Find(page, "config"))

\* line 355
RaisesAtSections(page) ==
    \E c \in 1..Len(Categories(page)) :
        LET subs == FindAll(Categories(page)[c], "subtext")
        IN \E i \in 1..Len(subs) : \E j \in 1..Len(subs[i].kids) : NoId(subs[i].kids[j])

\* lines 141, 191, 232, 265, 272
RaisesAtTypePage(page) ==
    LET subs == FindAll(page, "subtext")
    IN \E i \in 1..Len(subs) :
        IF HandlerOf(LabelOf(subs[i])) = "plain"
        THEN \E j \in 1..Len(subs[i].kids) : NoId(subs[i].kids[j])
        ELSE LET inners == FindAll(subs[i], "subtext")
             IN \E k \in 1..Len(inners) :
                    \E j \in 1..Len(inners[k].kids) : NoId(inners[k].kids[j])

\* the conversion of this page raises KeyError
Raises(path, page) ==
    RaisesAtDescription(path, page) \/ RaisesAtSections(page) \/ RaisesAtTypePage(page)

\* ---- the record of one page (gen.py 293-407)
BuildRecord(path, page, cm) ==
    [title |-> Strip(FindText(page, "h1", "")),
     lib |-> LibOf(path),
     kind |-> KindOf(path),
     description |-> NormalizeDescription(
                        WithFallback(FirstDescription(KindOf(path), page, cm),
                                     page, cm)),
     example |-> ExampleOf(page),
     details |-> DetailsOf(page, cm),
     doc_url |-> DocUrl(path)]

\* ---- inputs
Prefixes == {"/NTgCalls/", "/PyTgCalls/", "/Other/", ""}
Segments == {"Methods/", "Available Enums/", "Available Structs/",
             "Available Types/", "Advanced Types/", "Stream Descriptors/",
             "methods/"}
Files == {"play", "play.xml", "a.xml.xml", ".xml", ""}

RECURSIVE Middles(_)
Middles(n) ==
    IF n = 0 THEN {""}
    ELSE Middles(n - 1) \cup {m \o g : m \in Middles(n - 1), g \in Segments}

Paths == {p \o m \o f : p \in Prefixes, m \in Middles(MaxSegments), f \in Files}

MiscPath == "/PyTgCalls/Basic/intro.xml"
MethodPath == "/PyTgCalls/Methods/play.xml"

\* the resolved reference table handed over by parse_config
PageConfigMap ==
    [k \in {"A", "E", "P", "N", "R"} |->
        IF k = "A" THEN "about\nit"
        ELSE IF k = "P" THEN "chat_id: int\nA"
        ELSE IF k = "N" THEN "NotInCall"
        ELSE IF k = "R" THEN "NoActiveGroupCall: no call\nis active"
        ELSE ""]

BlockKids == {TextNode(""), TextNode(" s "), ConfigNode("A"), ConfigNode("Z")}
Blocks == {SubtextNode(<<>>)}
            \cup {SubtextNode(<<a>>) : a \in BlockKids}
            \cup {SubtextNode(<<a, b>>) : a \in BlockKids, b \in BlockKids}
TopNodes == {ConfigNode("A"), ConfigNode("E"), ConfigNode("Z"),
             TextNode(""), TextNode("  "), TextNode("\n  t\n   u\n")}
                \cup Blocks
Bodies == UNION {[1..n -> TopNodes] : n \in 0..MaxNodes}
Pages == {PageNode(<<H1(" play ")>> \o b) : b \in Bodies}
SimplePage == PageNode(<<H1("play"), TextNode("t")>>)
BarePage == PageNode(<<>>)

MapEntry(path, page) == [path |-> path, page |-> page]

\* ---- pages with sections: a method page with a PARAMETERS category holding
\* one reference and a second category whose block is generated
ItemNodes == {ConfigNode("P"), ConfigNode("N"), ConfigNode("R"), ConfigNode("Z"),
              TitleNode("x: T"), TitleNode("NotInCall"),
              TextNode(" B "), TextNode("NoActiveGroupCall")}
ItemBlocks == UNION {[1..n -> ItemNodes] : n \in 0..MaxItems}
SectionTitles == {"RAISES", " Raises ", "RETURNS"}
ParametersCategory ==
    CategoryNode(<<PgTitle("PARAMETERS"), SubtextNode(<<ConfigNode("P")>>)>>)
PlayPage(title, block) ==
    PageNode(<<H1("play"), TitleNode("play(chat_id: int)"), ConfigNode("A"),
               ParametersCategory,
               CategoryNode(<<PgTitle(title), SubtextNode(block)>>)>>)
PlayPages == {PlayPage(t, b) : t \in SectionTitles, b \in ItemBlocks}

\* ---- pages with an example
CodeLines == {"", "  ", "a", "  a", "    b", "\tc"}
Codes == {Join("\n", ls) : ls \in UNION {[1..n -> CodeLines] : n \in 0..MaxLines}}
                \cup {"    a\n        b\n", "\n\n  a\n\n    b\n  \n"}
Languages == {None, "bash", "c<b>"}
ExamplePage(language, code) ==
    PageNode(<<H1("play"), TextNode("t"), SyntaxNode(language, code)>>)
ExamplePages == {ExamplePage(l, c) : l \in Languages, c \in Codes}

\* ---- pages of an enum, a type and a stream descriptor
EnumPath == "/NTgCalls/Available Enums/Device.xml"
TypePath == "/PyTgCalls/Available Types/Call.xml"
DescriptorPath == "/PyTgCalls/Stream Descriptors/Media.xml"
EnumPage ==
    PageNode(<<H1("Device"), TitleNode("class Device"), TextNode("Kind of device"),
               SubtextNode(<<PgTitle("ENUMERATION MEMBERS"),
                   SubtextNode(<<TitleNode("MICROPHONE = 1"), TextNode("Mic input"),
                                 TitleNode("SPEAKER")>>)>>)>>)
TypePage ==
    PageNode(<<H1("Call"), TextNode("Call state"),
               SubtextNode(<<PgTitle("PROPERTIES"),
                   SubtextNode(<<TitleNode("chat_id -> int"), ConfigNode("N"),
                                 Node("category-title", None, "status",
                                      <<Node("docs-ref", None, "Status", <<>>)>>)>>)>>)>>)
DescriptorPage ==
    PageNode(<<H1("Media"), TitleNode("MediaStream(path)"), TextNode("A stream"),
               SubtextNode(<<PgTitle("PARAMETERS"),
                   SubtextNode(<<TitleNode("path: str"), TextNode("The file")>>)>>),
               SyntaxNode(None, "  MediaStream('a')")>>)
TypedEntries == {MapEntry(EnumPath, EnumPage), MapEntry(TypePath, TypePage),
                 MapEntry(DescriptorPath, DescriptorPage)}

\* ---- enum pages whose ENUMERATION MEMBERS block holds two inner blocks
MemberBlocks ==
    {<<>>, <<TitleNode("MIC = 1")>>, <<TextNode("Note")>>, <<ConfigNode("N")>>,
     <<TitleNode("MIC = 1"), TextNode("Mic input")>>,
     <<TextNode("Note"), TitleNode("SPK")>>}
TwoBlockPage(first, second) ==
    PageNode(<<H1("Device"), TitleNode("class Device"), TextNode("Kind of device"),
               SubtextNode(<<PgTitle("ENUMERATION MEMBERS"),
                             SubtextNode(first), SubtextNode(second)>>)>>)
TwoBlockPages == {TwoBlockPage(a, b) : a \in MemberBlocks, b \in MemberBlocks}

\* ---- pages with missing or unexpected substructure
MalformedPages ==
    {BarePage,
     PageNode(<<SubtextNode(<<SubtextNode(<<SubtextNode(<<>>)>>)>>)>>),
     PageNode(<<CategoryNode(<<CategoryNode(<<>>), TextNode("t")>>)>>),
     PageNode(<<H1("play"), ConfigNode(None)>>),
     PageNode(<<H1("play"), SubtextNode(<<ConfigNode(None)>>)>>),
     PageNode(<<H1("play"), TextNode("t"),
                CategoryNode(<<PgTitle("RAISES"), SubtextNode(<<ConfigNode(None)>>)>>)>>),
     PageNode(<<H1("play"), TextNode("t"),
                SubtextNode(<<PgTitle("PROPERTIES"),
                              SubtextNode(<<ConfigNode(None)>>)>>)>>)}

RawMaps ==
    {<<MapEntry(p, SimplePage)>> : p \in Paths}
        \cup {<<MapEntry(p, pg)>> : p \in {MiscPath, MethodPath}, pg \in Pages}
        \cup {<<MapEntry(MethodPath, pg), MapEntry(MiscPath, qg)>> :
                 pg \in {SimplePage, BarePage}, qg \in {SimplePage, BarePage}}
        \cup {<<MapEntry(MethodPath, pg)>> : pg \in PlayPages \cup ExamplePages}
        \cup {<<e>> : e \in TypedEntries}
        \cup {<<MapEntry(EnumPath, pg)>> : pg \in TwoBlockPages}
        \cup {<<MapEntry(p, pg)>> : p \in {MiscPath, MethodPath}, pg \in MalformedPages}
        \cup {<<MapEntry(MethodPath, pg), MapEntry(MiscPath, SimplePage)>> :
                 pg \in MalformedPages}
        \cup {<<MapEntry(MiscPath, SimplePage), MapEntry(MethodPath, pg)>> :
                 pg \in MalformedPages}

InitMapVars ==
    /\ raw_map \in RawMaps
    /\ mapIdx = 1
    /\ mapPc = "loop"
    /\ docs = EmptyMap
    /\ config_map = PageConfigMap

\* one iteration of: for path, page_xml in raw_map.items()
ParsePage ==
    /\ mapPc = "loop" /\ mapIdx <= Len(raw_map)
    /\ ~Raises(raw_map[mapIdx].path, raw_map[mapIdx].page)
    /\ LET path == raw_map[mapIdx].path
           page == raw_map[mapIdx].page
       IN docs' = [k \in DOMAIN docs \cup {path} |->
                     IF k = path THEN BuildRecord(path, page, config_map)
                     ELSE docs[k]]
    /\ mapIdx' = mapIdx + 1
    /\ UNCHANGED <<raw_map, mapPc>>

\* an iteration that ends in KeyError: parse_map is left by the exception and
\* returns nothing
RaisePage ==
    /\ mapPc = "loop" /\ mapIdx <= Len(raw_map)
    /\ Raises(raw_map[mapIdx].path, raw_map[mapIdx].page)
    /\ mapPc' = "raised"
    /\ UNCHANGED <<raw_map, mapIdx, docs>>

\* return docs
ReturnDocs ==
    /\ mapPc = "loop" /\ mapIdx > Len(raw_map)
    /\ mapPc' = "done"
    /\ UNCHANGED <<raw_map, mapIdx, docs>>

NextMap ==
    \/ ParsePage /\ UNCHANGED <<cfgVars, searchVars, loadVars, fmtVars, inlineVars, coreVars>>
    \/ RaisePage /\ UNCHANGED <<cfgVars, searchVars, loadVars, fmtVars, inlineVars, coreVars>>
    \/ ReturnDocs /\ UNCHANGED <<cfgVars, searchVars, loadVars, fmtVars, inlineVars, coreVars>>

InitMap ==
    InitMapVars /\ IdleConfig /\ IdleSearch /\ IdleLoad /\ IdleFormat /\ IdleInline /\ IdleCore

SpecMap == InitMap /\ [][NextMap]_vars

(***************************************************************************)
(* Claims about parse_map                                                  *)
(***************************************************************************)
\* C1: every record parse_map has built has a description of length at least
\* 1; a page without any description text gets the single space.
DescriptionNeverEmpty ==
    \A p \in DOMAIN docs :
        /\ Len(docs[p].description) >= 1
        /\ (\A k \in 1..Len(raw_map) :
                (raw_map[k].path = p /\ raw_map[k].page = BarePage)
                    => docs[p].description = " ")


\* the classification rules in the order the claim gives them
KindRules == <<[sub |-> "Available Enums", kind |-> "enum"],
               [sub |-> "Methods", kind |-> "method"],
               [sub |-> "Available Structs", kind |-> "struct"],
               [sub |-> "Available Types", kind |-> "type"],
               [sub |-> "Advanced Types", kind |-> "type"],
               [sub |-> "Stream Descriptors", kind |-> "descriptor"]>>
RuleKind(path) ==
    LET hits == {i \in 1..Len(KindRules) : Contains(KindRules[i].sub, path)}
    IN IF hits = {} THEN "misc"
       ELSE KindRules[CHOOSE i \in hits : \A j \in hits : i <= j].kind

\* C9: the kind of every record is the kind of the earliest rule, in the order
\* Available Enums, Methods, Available Structs, Available/Advanced Types,
\* Stream Descriptors, whose substring the path contains, and misc when no
\* rule applies; it depends on the path alone.
KindByFirstRule ==
    \A p \in DOMAIN docs : docs[p].kind = RuleKind(p)

\* C9 witness: a record was built for a path that contains "Methods" before
\* "Available Enums" and it got the kind enum.
KindOfMixedPath ==
    /\ "/PyTgCalls/Methods/Available Enums/play.xml" \in DOMAIN docs
    /\ docs["/PyTgCalls/Methods/Available Enums/play.xml"].kind = "enum"

\* C10: doc_url is the base, the library segment, a slash and the path with
\* its library prefix stripped and one trailing .xml removed; for
\* /PyTgCalls/Methods/play.xml it is base + PyTgCalls/ + Methods/play.
DocUrlDerivation ==
    \A p \in DOMAIN docs :
        LET r == docs[p]
            whole == IF EndsWith(p, ".xml") THEN r.doc_url \o ".xml" ELSE r.doc_url
            pre == IF StartsWith(p, "/NTgCalls/") THEN "/NTgCalls/"
                   ELSE IF StartsWith(p, "/PyTgCalls/") THEN "/PyTgCalls/"
                   ELSE ""
        IN /\ whole = "https://pytgcalls.github.io/" \o r.lib \o "/"
                        \o SubSeq(p, Len(pre) + 1, Len(p))
           /\ pre # "" => pre = "/" \o r.lib \o "/"
           /\ p = "/PyTgCalls/Methods/play.xml" =>
                r.doc_url = "https://pytgcalls.github.io/PyTgCalls/Methods/play"

\* C10 witness: parse_map has returned with the record of
\* /PyTgCalls/Methods/play.xml, whose doc_url ends in PyTgCalls/Methods/play.
DocUrlOfPlay ==
    /\ mapPc = "done"
    /\ "/PyTgCalls/Methods/play.xml" \in DOMAIN docs
    /\ docs["/PyTgCalls/Methods/play.xml"].doc_url
            = "https://pytgcalls.github.io/PyTgCalls/Methods/play"

\* ---- the claims about sections read the page a record was built from
PageOf(p) == raw_map[CHOOSE k \in 1..Len(raw_map) : raw_map[k].path = p].page

\* the three sources of the description of a page that is not misc: the text
\* the page-level reference resolves to, the top-level text node, the fallback
ReferenceText(p) ==
    IF HasTag(PageOf(p), "config")
    THEN CfgGet(config_map, Find(PageOf(p), "config").id, "")
    ELSE ""
TopLevelText(p) == FindText(PageOf(p), "text", "")
FallbackText(p) == WithFallback("", PageOf(p), config_map)

\* C22: the description of a page of non-misc kind is the resolved text of
\* the page-level reference, else the top-level text node, else the fallback
\* description, each later source taken whenever every earlier one is empty.
DescriptionByPriority ==
    \A p \in DOMAIN docs :
        docs[p].kind # "misc" =>
            docs[p].description =
                NormalizeDescription(
                    IF ReferenceText(p) # "" THEN ReferenceText(p)
                    ELSE IF TopLevelText(p) # "" THEN TopLevelText(p)
                    ELSE FallbackText(p))

SectionsIn(p) ==
    IF "sections" \in DOMAIN docs[p].details THEN docs[p].details.sections ELSE <<>>

\* the categories of a page whose blocks hold at least one entry or fragment,
\* in document order
FilledCategories(p) ==
    SelectSeq(Categories(PageOf(p)), LAMBDA c : RawItems(c, config_map) # <<>>)

\* an entry of a block that carries a name: a category title, or a reference
\* whose first resolved line has the form name: type
NamedEntry(item) ==
    \/ "raw" \in DOMAIN item
    \/ "resolved" \in DOMAIN item /\ Contains(":", Before("\n", Strip(item.resolved)))

\* the text of a bare fragment and the description a named entry brings along
FragmentText(item) ==
    IF "resolved" \in DOMAIN item THEN Strip(item.resolved) ELSE Strip(item.text)
OwnDescription(item) ==
    IF "resolved" \in DOMAIN item /\ Contains("\n", Strip(item.resolved))
    THEN Strip(After("\n", Strip(item.resolved))) ELSE ""

NamedUpTo(raw, k) == Cardinality({m \in 1..k : NamedEntry(raw[m])})

\* the description of the entry at position k followed by the fragments up to
\* the next named entry, each after one space
RECURSIVE WithFragments(_, _, _)
WithFragments(description, raw, k) ==
    IF k > Len(raw) \/ NamedEntry(raw[k]) THEN description
    ELSE WithFragments(description \o " " \o FragmentText(raw[k]), raw, k + 1)

\* C11: in every section, a bare fragment that follows a named entry creates
\* no Item and is appended to that entry's description after exactly one
\* space: a block that starts with a named entry gives as many Items as it has
\* named entries, and the description of each named entry's Item is its own
\* description followed by " " and the text of every fragment up to the next
\* named entry.
ItemContinuationRule ==
    \A p \in DOMAIN docs :
        /\ Len(SectionsIn(p)) = Len(FilledCategories(p))
        /\ \A i \in 1..Len(SectionsIn(p)) :
            LET raw == RawItems(FilledCategories(p)[i], config_map)
                items == SectionsIn(p)[i].items
                lead == IF NamedEntry(raw[1]) THEN 0 ELSE 1
            IN /\ NamedEntry(raw[1]) => Len(items) = NamedUpTo(raw, Len(raw))
               /\ \A k \in 1..Len(raw) :
                    NamedEntry(raw[k]) =>
                        /\ lead + NamedUpTo(raw, k) <= Len(items)
                        /\ items[lead + NamedUpTo(raw, k)].description =
                              WithFragments(OwnDescription(raw[k]), raw, k + 1)

\* C11 witness: the block <config id="P"/><text> B </text>, where P resolves to
\* "chat_id: int\nA", has given the single Item chat_id with description "A B".
FragmentAppended ==
    \E p \in DOMAIN docs : \E i \in 1..Len(SectionsIn(p)) :
        /\ RawItems(FilledCategories(p)[i], config_map) =
              <<[config_id |-> "P", resolved |-> "chat_id: int\nA"], [text |-> "B"]>>
        /\ SectionsIn(p)[i].items = <<DocItem("chat_id", "int", "A B", "P", None)>>

\* the texts the text and reference nodes of the subordinate blocks supply, in
\* document order
BlockTexts(p) ==
    LET subs == FindAll(PageOf(p), "subtext")
        supplied(n) ==
            IF n.tag = "text" THEN <<Strip(n.text)>>
            ELSE IF n.tag = "config" /\ n.id # None /\ n.id # ""
            THEN <<CfgGet(config_map, n.id, Unresolved(n.id))>>
            ELSE <<>>
    IN Flatten([k \in 1..Len(subs) |->
            Flatten([i \in 1..Len(subs[k].kids) |-> supplied(subs[k].kids[i])])])

FirstFound(p) ==
    LET found == NonEmpty(BlockTexts(p))
    IN IF found = <<>> THEN "" ELSE found[1]

\* C23: when no page-level description was populated, the description is the
\* first plain text node or the first reference-resolved node of the
\* subordinate blocks in document order; no later node replaces it.
FallbackIsFirstFound ==
    \A p \in DOMAIN docs :
        FirstDescription(docs[p].kind, PageOf(p), config_map) = "" =>
            docs[p].description = NormalizeDescription(FirstFound(p))

\* ---- the Items of the inner blocks of an ENUMERATION MEMBERS block
MemberBlocksOf(p) ==
    LET labelled == SelectSeq(FindAll(PageOf(p), "subtext"),
                              LAMBDA sub : HandlerOf(LabelOf(sub)) = "member")
    IN Flatten([k \in 1..Len(labelled) |-> FindAll(labelled[k], "subtext")])

MembersIn(p) ==
    IF "members" \in DOMAIN docs[p].details THEN docs[p].details.members ELSE <<>>

\* the description text a sub-node of an inner block supplies
SuppliedText(child) ==
    IF child.tag = "config" THEN Strip(CfgGet(config_map, child.id, Unresolved(child.id)))
    ELSE IF child.tag = "text" THEN Strip(child.text)
    ELSE ""

\* the Items one inner block is to give by itself: one per category title,
\* described by the texts that follow the title inside the block
RECURSIVE ItemsOfBlock(_, _)
ItemsOfBlock(kids, items) ==
    IF kids = <<>> THEN items
    ELSE IF kids[1].tag = "category-title"
    THEN ItemsOfBlock(Tail(kids), Append(items, MemberOfTitle(kids[1])))
    ELSE IF items = <<>> \/ SuppliedText(kids[1]) = ""
    THEN ItemsOfBlock(Tail(kids), items)
    ELSE ItemsOfBlock(Tail(kids),
            [items EXCEPT ![Len(items)].description =
                IF @ = "" THEN SuppliedText(kids[1])
                ELSE @ \o " " \o SuppliedText(kids[1])])

\* the members of a page are the Items each inner block gives by itself
MembersByOwnBlock(p) ==
    LET blocks == MemberBlocksOf(p)
    IN MembersIn(p) =
         Flatten([k \in 1..Len(blocks) |-> ItemsOfBlock(blocks[k].kids, <<>>)])

\* C21: a sub-node that supplies only description text in a block that has
\* not yet produced an Item modifies no Item and creates no Item: the members
\* of a page are the Items each inner block gives by itself, in order, and no
\* section holds an Item with an empty name.
LeadingTextKeptOffItems ==
    \A p \in DOMAIN docs :
        /\ MembersByOwnBlock(p)
        /\ \A i \in 1..Len(SectionsIn(p)) :
                \A k \in 1..Len(SectionsIn(p)[i].items) :
                    SectionsIn(p)[i].items[k].name # ""

\* the pages of the scenario: a method page play whose PARAMETERS block holds
\* the reference to "chat_id: int" and whose RAISES block holds two lines
ScenarioPaths ==
    {p \in DOMAIN docs :
        \E b \in ItemBlocks : Len(b) = 2 /\ PageOf(p) = PlayPage("RAISES", b)}

RaisesLines(p) == RawItems(Categories(PageOf(p))[2], config_map)

SectionsTitled(p, title) ==
    SelectSeq(SectionsIn(p), LAMBDA sec : sec.title = title)

HasParametersSection(p) ==
    /\ docs[p].kind = "method"
    /\ Len(SectionsTitled(p, "PARAMETERS")) = 1
    /\ Len(SectionsTitled(p, "PARAMETERS")[1].items) = 1
    /\ SectionsTitled(p, "PARAMETERS")[1].items[1].name = "chat_id"
    /\ SectionsTitled(p, "PARAMETERS")[1].items[1].type = "int"

ExtractionNeverRaises ==
    /\ mapPc # "raised"
    /\ mapPc = "done" => \A k \in 1..Len(raw_map) : raw_map[k].path \in DOMAIN docs

\* ---- the claims about examples read the example block of the page
HasExampleBlock(p) == HasTag(PageOf(p), "syntax-highlight")
CodeRawOf(p) == IterText(Find(PageOf(p), "syntax-highlight"))
DeclaredLanguage(p) == Find(PageOf(p), "syntax-highlight").language

\* the lines of a text that are not blank, in order
NonBlankLines(text) == SelectSeq(SplitLines(text), LAMBDA line : ~IsBlankLine(line))

\* the least number of leading spaces and tabs among the given lines
MinIndent(lines) ==
    IF lines = <<>> THEN 0
    ELSE CHOOSE n \in 0..Len(lines[1]) :
            /\ \E i \in 1..Len(lines) : Len(LeadingWS(lines[i])) = n
            /\ \A i \in 1..Len(lines) : Len(LeadingWS(lines[i])) >= n

\* the length of the longest leading whitespace all the given lines share
CommonIndent(lines) ==
    IF lines = <<>> THEN 0
    ELSE CHOOSE n \in 0..MinIndent(lines) :
            /\ \A i \in 1..Len(lines) :
                    SubSeq(lines[i], 1, n) = SubSeq(lines[1], 1, n)
            /\ n < MinIndent(lines) =>
                    \E i \in 1..Len(lines) :
                        SubSeq(lines[i], 1, n + 1) # SubSeq(lines[1], 1, n + 1)

\* the extracted code is the block with cut characters removed from the front
\* of every non-blank line, without leading and trailing blank lines, and the
\* language is the declared one, "python" when none is declared
ExampleCutBy(p, cut) ==
    LET code == docs[p].example.code
        raw == NonBlankLines(CodeRawOf(p))
        out == SplitLines(code)
    IN /\ NonBlankLines(code) =
            [i \in 1..Len(raw) |-> SubSeq(raw[i], cut + 1, Len(raw[i]))]
       /\ ~IsBlankLine(out[1]) \/ code = ""
       /\ ~IsBlankLine(out[Len(out)]) \/ code = ""
       /\ docs[p].example.language =
            IF DeclaredLanguage(p) = None THEN "python" ELSE DeclaredLanguage(p)

\* C19 as stated: the minimum indentation found among the non-blank lines of
\* the block is removed from every non-blank line, leading and trailing blank
\* lines are removed, and the language defaults to "python".
ExampleDedentByMinimum ==
    \A p \in DOMAIN docs :
        HasExampleBlock(p) =>
            ExampleCutBy(p, MinIndent(NonBlankLines(CodeRawOf(p))))

\* C19 amended: the leading whitespace common to all non-blank lines of the
\* block is removed from every non-blank line (the minimum indentation when the
\* lines are indented with the same characters), leading and trailing blank
\* lines are removed, and the language defaults to "python".
ExampleDedentByCommonPrefix ==
    \A p \in DOMAIN docs :
        /\ HasExampleBlock(p) =>
              ExampleCutBy(p, CommonIndent(NonBlankLines(CodeRawOf(p))))
        /\ ~HasExampleBlock(p) => docs[p].example = EmptyMap

\* C19 witness: the block with lines indented by 4 and by 8 and no language
\* has given the code with indentations 0 and 4 and the language "python".
ExampleFourAndEight ==
    \E p \in DOMAIN docs :
        /\ HasExampleBlock(p)
        /\ CodeRawOf(p) = "    a\n        b\n"
        /\ DeclaredLanguage(p) = None
        /\ docs[p].example = [language |-> "python", code |-> "a\n    b"]

(***************************************************************************)
(* Claims about parse_config                                               *)
(***************************************************************************)
AllOptionIds == {root[k].id : k \in 1..Len(root)}
RefsOf(k) == {root[k].kids[j].id :
                j \in {n \in 1..Len(root[k].kids) : root[k].kids[n].tag = "config"}}
MissingRefsOf(k) == {i \in RefsOf(k) : i \notin AllOptionIds}

\* C3: parse_config terminates for every reference table, cyclic and
\* self-referencing ones included, and when it returns the table holds a
\* resolved text for every option id.
ConfigTerminates ==
    <>(cfgPc = "done" /\ DOMAIN config_map = AllOptionIds)

\* C3 witness: parse_config has returned for a table in which A references B,
\* B references A, and an option references itself.
ConfigCycleResolved ==
    /\ cfgPc = "done"
    /\ "B" \in RefsOf(1) /\ "A" \in RefsOf(2)
    /\ "A" \in RefsOf(1)
    /\ DOMAIN config_map = AllOptionIds

\* C4: once parse_config has returned, the text of every option that references
\* an id with no option contains [UNRESOLVED:<id>] for exactly that id, and
\* every option of the table has a resolved text.
PlaceholderForMissing ==
    cfgPc = "done" =>
        /\ DOMAIN config_map = AllOptionIds
        /\ \A k \in 1..Len(root) : \A i \in MissingRefsOf(k) :
                Contains("[UNRESOLVED:" \o i \o "]", config_map[root[k].id])

\* C4 witness: parse_config has returned; option A references the missing id
\* Z and carries the placeholder, option B references nothing missing and is
\* resolved to its own text.
PlaceholderSeen ==
    /\ cfgPc = "done"
    /\ MissingRefsOf(1) = {"Z"} /\ MissingRefsOf(2) = {}
    /\ Contains("[UNRESOLVED:Z]", config_map["A"])
    /\ config_map["B"] = "x"

\* C24: during one top-level resolution the body of a referenced option is
\* expanded at most once: a body is entered only for an id not yet visited,
\* which is visited from then on; a reference to a visited id adds no text and
\* enters no body; every top-level resolution starts with no id visited.
VisitedOncePerResolution ==
    [][/\ (stack # <<>> /\ Len(stack') > Len(stack)) =>
            /\ root[stack'[Len(stack')].node].id \notin seen
            /\ root[stack'[Len(stack')].node].id \in seen'
       /\ (stack # <<>> /\ stack' # <<>>) => seen \subseteq seen'
       /\ (HasChild /\ TopChild.tag = "config" /\ TopChild.id \in seen) =>
            /\ Len(stack') = Len(stack)
            /\ stack'[Len(stack')].parts = Top.parts
       /\ (stack = <<>> /\ stack' # <<>>) => seen' = {}]_vars

\* C24 witness: A references B twice and B holds the text x; parse_config
\* has returned with the text of B once in A.
SecondReferenceSkipped ==
    /\ cfgPc = "done"
    /\ root[1].kids = <<ConfigChild("B"), ConfigChild("B")>>
    /\ root[2].kids = <<TextChild(" x")>>
    /\ config_map["A"] = "x" /\ config_map["B"] = "x"

\* the resolved text of the option at k with the ids in visited visited: the
\* fragments of its children in document order, a literal stripped, a
\* reference to a visited id nothing, a reference to no option its
\* placeholder, a reference to an option its resolved text
RECURSIVE FragmentsFrom(_, _, _)
RECURSIVE ResolvedFrom(_, _)
FragmentsFrom(kids, visited, parts) ==
    IF kids = <<>> THEN [parts |-> parts, visited |-> visited]
    ELSE IF kids[1].tag # "config"
    THEN FragmentsFrom(Tail(kids), visited, Append(parts, Strip(kids[1].text)))
    ELSE IF kids[1].id \in visited
    THEN FragmentsFrom(Tail(kids), visited, parts)
    ELSE IF kids[1].id \notin AllOptionIds
    THEN FragmentsFrom(Tail(kids), visited \cup {kids[1].id},
                       Append(parts, "[UNRESOLVED:" \o kids[1].id \o "]"))
    ELSE LET k == CHOOSE k \in 1..Len(root) : root[k].id = kids[1].id
             inner == ResolvedFrom(k, visited \cup {kids[1].id})
         IN FragmentsFrom(Tail(kids), inner.visited, Append(parts, inner.text))
ResolvedFrom(k, visited) ==
    LET all == FragmentsFrom(root[k].kids, visited, <<>>)
    IN [text |-> Join("\n", SelectSeq(all.parts, LAMBDA part : part # "")),
        visited |-> all.visited]

\* C25: the resolved text of every option is the concatenation, in document
\* order of its children, of the stripped literal of each non-reference child
\* and the recursively resolved text of each referenced option, joined by
\* single newlines with the empty fragments skipped; an option without a
\* non-empty fragment resolves to the empty string.
ResolvedTextIsConcatenation ==
    cfgPc = "done" =>
        \A k \in 1..Len(root) :
            /\ config_map[root[k].id] = ResolvedFrom(k, {}).text
            /\ root[k].kids \in {<<>>, <<TextChild(" ")>>} => config_map[root[k].id] = ""

\* C25 witness: A holds a blank literal and a reference to B, B holds x and a
\* blank literal; parse_config has returned x for both.
BlankFragmentsSkipped ==
    /\ cfgPc = "done"
    /\ root[1].kids = <<TextChild(" "), ConfigChild("B")>>
    /\ root[2].kids = <<TextChild(" x"), TextChild(" ")>>
    /\ config_map["A"] = "x" /\ config_map["B"] = "x"

\* the lines x of a resolved text, and the literals x of an option
LinesX(text) == Len(SelectSeq(SplitLines(text), LAMBDA line : line = "x"))
OwnLiterals(k) ==
    Len(SelectSeq(root[k].kids, LAMBDA c : c.tag # "config" /\ Strip(c.text) = "x"))

\* C29: the resolved text of every option X holds X's own literal fragments
\* exactly once, also when X is reachable from itself: in a table where only
\* X holds literals, the resolved text of X has as many lines x as X has
\* literals x.
OwnFragmentsOnce ==
    cfgPc = "done" =>
        \A k \in 1..Len(root) :
            (\A j \in 1..Len(root) : j # k => OwnLiterals(j) = 0)
                => LinesX(config_map[root[k].id]) = OwnLiterals(k)

\* the nesting of resolve() never reaches the depth the model follows
DepthWithinModel == Len(stack) <= Len(root) + 1

(***************************************************************************)
(* DocSearch: the record index and its scorer (src/modules/search.py)      *)
(***************************************************************************)
MaxEntries == 3       \* entries of the loaded snapshot
MaxLimit == 2         \* largest limit passed to search

\* q in field.lower()
Matches(q, field) == Contains(q, Lower(field))

\* an Item as the snapshot stores it (DocItem of gen.py)
Item(name, type, description, value) ==
    [name |-> name, type |-> type, description |-> description,
     source_config |-> None, value |-> value]

\* ---- the additions to score, in the order of the code
AddTitle(score, e, q) ==
    IF Matches(q, e.title) THEN score + 10 ELSE score

AddSignature(score, e, q) ==
    IF e.details.signature # None /\ e.details.signature # ""
       /\ Matches(q, e.details.signature)
    THEN score + 9 ELSE score

AddLib(score, e, q) ==
    IF Matches(q, e.lib) THEN score + 7 ELSE score

AddDescriptionAssign(score, e, q) ==
    IF Matches(q, e.description) THEN 5 ELSE score
AddDescription(score, e, q) ==
    IF Matches(q, e.description) THEN score + 5 ELSE score

\* the three tests on one section item
AddSectionItem(score, it, q) ==
    LET s1 == IF Matches(q, OrEmpty(it.name)) THEN score + 4 ELSE score
        s2 == IF Matches(q, OrEmpty(it.type)) THEN s1 + 3 ELSE s1
    IN IF Matches(q, OrEmpty(it.description)) THEN s2 + 2 ELSE s2

RECURSIVE AddSectionItems(_, _, _)
AddSectionItems(score, items, q) ==
    IF items = <<>> THEN score
    ELSE AddSectionItems(AddSectionItem(score, items[1], q), Tail(items), q)

RECURSIVE AddSectionList(_, _, _)
AddSectionList(score, sections, q) ==
    IF sections = <<>> THEN score
    ELSE LET s1 == IF Matches(q, sections[1].title) THEN score + 4 ELSE score
         IN AddSectionList(AddSectionItems(s1, sections[1].items, q),
                           Tail(sections), q)

AddSections(score, e, q) ==
    IF e.details.sections # None /\ e.details.sections # <<>>
    THEN AddSectionList(score, e.details.sections, q) ELSE score

\* the three tests on one member: name, value, description
AddMemberByType(score, m, q) ==
    LET s1 == IF Matches(q, OrEmpty(m.name)) THEN score + 4 ELSE score
        s2 == IF Matches(q, OrEmpty(m.type)) THEN s1 + 3 ELSE s1
    IN IF Matches(q, OrEmpty(m.description)) THEN s2 + 2 ELSE s2
AddMember(score, m, q) ==
    LET s1 == IF Matches(q, OrEmpty(m.name)) THEN score + 4 ELSE score
        s2 == IF Matches(q, OrEmpty(m.value)) THEN s1 + 3 ELSE s1
    IN IF Matches(q, OrEmpty(m.description)) THEN s2 + 2 ELSE s2

RECURSIVE AddMemberList(_, _, _)
AddMemberList(score, members, q) ==
    IF members = <<>> THEN score
    ELSE AddMemberList(AddMember(score, members[1], q), Tail(members), q)

AddMembers(score, e, q) ==
    IF e.details.members # None /\ e.details.members # <<>>
    THEN AddMemberList(score, e.details.members, q) ELSE score

\* the three tests on one property: name, type, description
AddProperty(score, pr, q) ==
    LET s1 == IF Matches(q, OrEmpty(pr.name)) THEN score + 4 ELSE score
        s2 == IF Matches(q, OrEmpty(pr.type)) THEN s1 + 3 ELSE s1
    IN IF Matches(q, OrEmpty(pr.description)) THEN s2 + 2 ELSE s2

RECURSIVE AddPropertyList(_, _, _)
AddPropertyList(score, properties, q) ==
    IF properties = <<>> THEN score
    ELSE AddPropertyList(AddProperty(score, properties[1], q), Tail(properties), q)

AddProperties(score, e, q) ==
    IF e.details.properties # None /\ e.details.properties # <<>>
    THEN AddPropertyList(score, e.details.properties, q) ELSE score

\* the body of the loop over self.entries, lines 92-139; q is lower-cased
ScoreOf(e, q) ==
    AddProperties(
        AddMembers(
            AddSections(
                AddDescription(
                    AddLib(AddSignature(AddTitle(0, e, q), e, q), e, q),
                    e, q),
                e, q),
            e, q),
        e, q)

\* ---- the loaded snapshot
Details(signature, sections, members, properties) ==
    [signature |-> signature, sections |-> sections,
     members |-> members, properties |-> properties]
DocEntry(title, lib, kind, description, details) ==
    [title |-> title, lib |-> lib, kind |-> kind, description |-> description,
     example |-> <<>>, details |-> details,
     doc_url |-> "https://pytgcalls.github.io/" \o lib \o "/" \o title]

EPlay ==
    DocEntry("play", "PyTgCalls", "method", "Play a stream",
        Details("play(chat_id: int)",
            <<[title |-> "PARAMETERS",
               items |-> <<Item("chat_id", "int", "Chat id", None)>>],
              [title |-> "RAISES",
               items |-> <<Item("", None, "NoActiveGroupCall\nNotInCall", None)>>]>>,
            None, None))
EPause ==
    DocEntry("pause", "PyTgCalls", "method", "Pause the stream",
        Details("pause(chat_id: int)",
            <<[title |-> "PARAMETERS",
               items |-> <<Item("chat_id", "int", "", None)>>]>>,
            None, None))
EDevice ==
    DocEntry("Device", "NTgCalls", "enum", "",
        Details(None, None,
            <<Item("MICROPHONE", None, "Mic input", "1"),
              Item("SPEAKER", None, "", "int(2)")>>,
            None))
ECall ==
    DocEntry("Call", "PyTgCalls", "type", "Call state",
        Details("", None, None,
            <<Item("chat_id", "int", "Chat", None),
              Item("status", "Status", "", None)>>))
EPlayer ==
    DocEntry("Player", "NTgCalls", "misc", "play", Details(None, None, None, None))

Pool == {EPlay, EPause, EDevice, ECall, EPlayer}

EntrySeqs ==
    {es \in UNION {[1..n -> Pool] : n \in 0..MaxEntries} :
        \A i, j \in 1..Len(es) : i # j => es[i] # es[j]}

Queries == {"", " ", "PLAY", "play(", "play stream", "chat_id", "int"}
Limits == (0 - 1)..MaxLimit

\* ScoreOf over the entries and lower-cased queries of the model, computed once
ScoreMemo == [e \in Pool |-> [q \in {Lower(qy) : qy \in Queries} |-> ScoreOf(e, q)]]

\* if score > 0: scored.append((score, e))
KeepScored(score) == score > 0

RECURSIVE ScoredList(_, _)
ScoredList(es, q) ==
    IF es = <<>> THEN <<>>
    ELSE LET score == ScoreMemo[es[1]][q]
         IN (IF KeepScored(score) THEN <<[score |-> score, e |-> es[1]]>> ELSE <<>>)
                \o ScoredList(Tail(es), q)

\* key=lambda x: (-x[0], len(x[1].title)), compared as tuples
SortKeyScoreOnly(x) == <<0 - x.score, 0>>
SortKey(x) == <<0 - x.score, Len(x.e.title)>>
KeyLess(a, b) == a[1] < b[1] \/ (a[1] = b[1] /\ a[2] < b[2])

\* list.sort is stable: an element goes behind every element whose key is
\* not greater than its own
InsertSorted(sorted, x) ==
    LET n == Cardinality({i \in 1..Len(sorted) :
                            ~KeyLess(SortKey(x), SortKey(sorted[i]))})
    IN SubSeq(sorted, 1, n) \o <<x>> \o SubSeq(sorted, n + 1, Len(sorted))

RECURSIVE SortScored(_, _)
SortScored(sorted, rest) ==
    IF rest = <<>> THEN sorted
    ELSE SortScored(InsertSorted(sorted, rest[1]), Tail(rest))

\* seq[:limit]
SliceOneMore(seq, lim) ==
    IF lim >= 0 THEN SubSeq(seq, 1, IF lim + 1 < Len(seq) THEN lim + 1 ELSE Len(seq))
    ELSE SubSeq(seq, 1, Len(seq) + lim)
SliceTo(seq, lim) ==
    IF lim >= 0 THEN SubSeq(seq, 1, IF lim < Len(seq) THEN lim ELSE Len(seq))
    ELSE SubSeq(seq, 1, Len(seq) + lim)

InitSearchVars ==
    /\ entries \in EntrySeqs
    /\ query = None
    /\ limit = 0
    /\ scored = <<>>
    /\ result = <<>>

\* self.entries after a call: search only iterates over it (line 91) and sorts
\* its own list scored
EntriesRanked(es, sc) == [k \in 1..Len(sc) |-> sc[k].e]
EntriesAfterSearch(es, sc) == es

\* DocSearch.search(query, limit)
Search ==
    \E qy \in Queries, lim \in Limits :
        /\ query' = qy
        /\ limit' = lim
        /\ scored' = SortScored(<<>>, ScoredList(entries, Lower(qy)))
        /\ result' = [k \in 1..Len(SliceTo(scored', lim)) |-> scored'[k].e]
        /\ entries' = EntriesAfterSearch(entries, scored')

NextSearch == Search /\ UNCHANGED <<cfgVars, mapVars, loadVars, fmtVars, inlineVars, coreVars>>

InitSearch ==
    /\ InitSearchVars /\ IdleConfig /\ config_map = EmptyMap /\ IdleMap
    /\ IdleLoad /\ IdleFormat /\ IdleInline /\ IdleCore

SpecSearch == InitSearch /\ [][NextSearch]_vars

(***************************************************************************)
(* Claims about DocSearch.search                                           *)
(***************************************************************************)
Searched == query # None

\* the score search has assigned to an entry: its score in scored, 0 when the
\* entry was not appended
AssignedScore(e) ==
    IF \E i \in 1..Len(scored) : scored[i].e = e
    THEN scored[CHOOSE i \in 1..Len(scored) : scored[i].e = e].score
    ELSE 0

ListOrEmpty(x) == IF x = None THEN <<>> ELSE x

\* the fields of an entry the claim scores, each with its weight and text; a
\* signature counts when the entry has one (neither None nor empty)
ScoredFields(e) ==
    LET S == ListOrEmpty(e.details.sections)
        M == ListOrEmpty(e.details.members)
        P == ListOrEmpty(e.details.properties)
    IN {<<"title", 0, 0, 10, e.title>>, <<"lib", 0, 0, 7, e.lib>>,
        <<"description", 0, 0, 5, e.description>>}
       \cup (IF e.details.signature \in {None, ""} THEN {}
             ELSE {<<"signature", 0, 0, 9, e.details.signature>>})
       \cup {<<"section.title", i, 0, 4, S[i].title>> : i \in 1..Len(S)}
       \cup UNION {UNION {{<<"item.name", i, j, 4, OrEmpty(S[i].items[j].name)>>,
                           <<"item.type", i, j, 3, OrEmpty(S[i].items[j].type)>>,
                           <<"item.description", i, j, 2,
                                OrEmpty(S[i].items[j].description)>>} :
                            j \in 1..Len(S[i].items)} : i \in 1..Len(S)}
       \cup UNION {{<<"member.name", i, 0, 4, OrEmpty(M[i].name)>>,
                    <<"member.value", i, 0, 3, OrEmpty(M[i].value)>>,
                    <<"member.description", i, 0, 2, OrEmpty(M[i].description)>>} :
                        i \in 1..Len(M)}
       \cup UNION {{<<"property.name", i, 0, 4, OrEmpty(P[i].name)>>,
                    <<"property.type", i, 0, 3, OrEmpty(P[i].type)>>,
                    <<"property.description", i, 0, 2, OrEmpty(P[i].description)>>} :
                        i \in 1..Len(P)}

\* the fields whose lower-cased text contains the lower-cased query as one piece
MatchedFields(e, qy) == {f \in ScoredFields(e) : Contains(Lower(qy), Lower(f[5]))}

RECURSIVE SumWeights(_)
SumWeights(fs) ==
    IF fs = {} THEN 0
    ELSE LET f == CHOOSE f \in fs : TRUE IN f[4] + SumWeights(fs \ {f})

MatchedMemo == [e \in Pool |-> [qy \in Queries |-> MatchedFields(e, qy)]]
WeightedSumMemo == [e \in Pool |-> [qy \in Queries |-> SumWeights(MatchedMemo[e][qy])]]

\* C2: a search with the empty query or a whitespace-only query returns the
\* empty list.
EmptyQueryReturnsNothing ==
    (Searched /\ Strip(query) = "") => result = <<>>

\* C5: the score search assigns to every entry is the sum of the weights of
\* the matched fields: 10 title, 9 signature, 7 library, 5 description, 4 per
\* section title, 4/3/2 per section item name/type/description, 4/3/2 per
\* member name/value/description, 4/3/2 per property name/type/description,
\* matched case-insensitively against the whole query.
ScoreIsWeightedSum ==
    Searched =>
        \A k \in 1..Len(entries) :
            AssignedScore(entries[k]) = WeightedSumMemo[entries[k]][query]

\* C5 witness: after a search for "int" the enum Device has scored 3 for its
\* member value int(2) and the method play 12 for its signature and its
\* parameter type.
ScoresOfInt ==
    /\ query = "int"
    /\ AssignedScore(EDevice) = 3 /\ AssignedScore(EPlay) = 12
    /\ \E i, j \in 1..Len(entries) : entries[i] = EDevice /\ entries[j] = EPlay

\* C6: in the returned list scores never increase, and of two entries with
\* the same score the one with the shorter title comes first.
RankedOrder ==
    \A i, j \in 1..Len(result) :
        i < j =>
            /\ AssignedScore(result[i]) >= AssignedScore(result[j])
            /\ AssignedScore(result[i]) = AssignedScore(result[j])
                    => Len(result[i].title) <= Len(result[j].title)

\* C6 witness: pause was loaded before play, both score 13 for "chat_id", and
\* play, the shorter title, is returned first.
TieBrokenByTitle ==
    /\ query = "chat_id"
    /\ entries = <<EPause, EPlay>>
    /\ AssignedScore(EPlay) = 13 /\ AssignedScore(EPause) = 13
    /\ result = <<EPlay, EPause>>

\* C7: for a limit >= 0 the result is the first min(limit, n) entries of the
\* ranking of the n entries with a score above 0.
LimitAndPositiveScores ==
    (Searched /\ limit >= 0) =>
        LET positive == {k \in 1..Len(entries) :
                            WeightedSumMemo[entries[k]][query] > 0}
            n == Cardinality(positive)
        IN /\ Len(scored) = n
           /\ {scored[i].e : i \in 1..n} = {entries[k] : k \in positive}
           /\ Len(result) = (IF limit < n THEN limit ELSE n)
           /\ \A i \in 1..Len(result) : result[i] = scored[i].e

\* C7 witness: three entries are loaded, two of them score for "chat_id",
\* Device scores 0, and limit 1 returns the first of the two only.
LimitCuts ==
    /\ query = "chat_id" /\ limit = 1
    /\ Len(entries) = 3 /\ Len(scored) = 2
    /\ \E k \in 1..3 : entries[k] = EDevice
    /\ result = <<scored[1].e>>

\* C8: for every entry, a query that matches every field another query
\* matches and at least one more gives the entry a score that is not lower.
ScoreMonotone ==
    Searched =>
        \A k \in 1..Len(entries) : \A q1 \in Queries :
            LET e == entries[k]
            IN (MatchedMemo[e][q1] \subseteq MatchedMemo[e][query]
                    /\ MatchedMemo[e][q1] # MatchedMemo[e][query])
                => ScoreMemo[e][Lower(q1)] <= AssignedScore(e)

\* C8 witness: play was searched with "PLAY", which matches its title and
\* description besides the signature that "play(" matches alone; it scores 24,
\* against 9 for "play(".
MoreFieldsMatched ==
    /\ query = "PLAY"
    /\ \E k \in 1..Len(entries) : entries[k] = EPlay
    /\ MatchedMemo[EPlay]["play("] \subseteq MatchedMemo[EPlay]["PLAY"]
    /\ Cardinality(MatchedMemo[EPlay]["play("]) = 1
    /\ Cardinality(MatchedMemo[EPlay]["PLAY"]) = 3
    /\ AssignedScore(EPlay) = 24 /\ ScoreMemo[EPlay]["play("] = 9

(***************************************************************************)
(* DocSearch.__init__: the load of the snapshot (src/modules/search.py)    *)
(***************************************************************************)
MaxSnapshot == 2      \* entries of the snapshot file

\* d.get(key)
DictGet(d, key) == IF key \in DOMAIN d THEN d[key] ELSE None

\* the truth value of d.get(key) for a list or None
Truthy(x) == x # None /\ x # <<>> /\ x # ""

\* the fields of the dataclasses Member and Property, and of Section
ItemFields == {"name", "type", "description", "source_config", "value"}
SectionFields == {"title", "items"}
EntryKeys == {"title", "lib", "kind", "description", "example", "details", "doc_url"}

\* Member(**m) and Property(**p): the defaults fill the absent fields
LoadItem(m) ==
    [name |-> m.name,
     type |-> IF "type" \in DOMAIN m THEN m.type ELSE None,
     description |-> IF "description" \in DOMAIN m THEN m.description ELSE "",
     source_config |-> IF "source_config" \in DOMAIN m THEN m.source_config ELSE None,
     value |-> IF "value" \in DOMAIN m THEN m.value ELSE None]

\* Section(**s)
LoadSection(sec) == [title |-> sec.title, items |-> sec.items]

\* TypeError of Member(**m), Property(**p): an unexpected keyword, or no name
ItemRaises(m) == ~(DOMAIN m \subseteq ItemFields) \/ "name" \notin DOMAIN m

\* TypeError of Section(**s): an unexpected keyword, or no title or items
SectionRaises(sec) == DOMAIN sec # SectionFields

\* the exceptions of one iteration of the loop: lines 56-83
LoadRaises(v) ==
    \/ ~(EntryKeys \subseteq DOMAIN v)
    \/ /\ EntryKeys \subseteq DOMAIN v
       /\ \/ /\ Truthy(DictGet(v.details, "members"))
             /\ \E i \in 1..Len(v.details.members) : ItemRaises(v.details.members[i])
          \/ /\ Truthy(DictGet(v.details, "properties"))
             /\ \E i \in 1..Len(v.details.properties) :
                    ItemRaises(v.details.properties[i])
          \/ /\ Truthy(DictGet(v.details, "sections"))
             /\ \E i \in 1..Len(v.details.sections) :
                    SectionRaises(v.details.sections[i])

\* the DocEntry one iteration appends: lines 56-83
LoadedEntry(v) ==
    [title |-> v.title, lib |-> v.lib, kind |-> v.kind,
     description |-> v.description, example |-> v.example,
     details |->
        Details(DictGet(v.details, "signature"),
                IF Truthy(DictGet(v.details, "sections"))
                THEN [i \in 1..Len(v.details.sections) |->
                         LoadSection(v.details.sections[i])]
                ELSE None,
                IF Truthy(DictGet(v.details, "members"))
                THEN [i \in 1..Len(v.details.members) |->
                         LoadItem(v.details.members[i])]
                ELSE None,
                IF Truthy(DictGet(v.details, "properties"))
                THEN [i \in 1..Len(v.details.properties) |->
                         LoadItem(v.details.properties[i])]
                ELSE None),
     doc_url |-> v.doc_url]

\* ---- inputs: the values parse_map writes for a page of each kind
SnapshotEntry(path, v) == [path |-> path, v |-> v]
WrittenPages ==
    TypedEntries
        \cup {MapEntry(MethodPath, PlayPage("RAISES", <<ConfigNode("R"), TextNode(" B ")>>)),
              MapEntry(MiscPath, SimplePage),
              MapEntry("/Other/bare", BarePage),
              MapEntry("/NTgCalls/Methods/ex.xml", ExamplePage(None, "    a\n        b\n"))}
WrittenEntries ==
    {SnapshotEntry(e.path, BuildRecord(e.path, e.page, PageConfigMap)) : e \in WrittenPages}

\* ---- inputs: values of a snapshot written by hand or by another version
ForeignValue(details) ==
    [title |-> "Old", lib |-> "PyTgCalls", kind |-> "enum", description |-> "d",
     example |-> EmptyMap, details |-> details, doc_url |-> "https://pytgcalls.github.io/"]
ForeignDetails ==
    {EmptyMap,
     [signature |-> None, members |-> <<>>, properties |-> <<>>, sections |-> <<>>],
     [members |-> <<[name |-> "A"]>>],
     [members |-> <<[name |-> "A", alias |-> "a"]>>],
     [members |-> <<[value |-> "1"]>>],
     [properties |-> <<[name |-> "p", kind |-> "int"]>>],
     [sections |-> <<[title |-> "RAISES"]>>],
     [sections |-> <<[title |-> "RAISES", items |-> <<>>, note |-> "n"]>>]}
ForeignEntries == {SnapshotEntry("/Foreign/old", ForeignValue(d)) : d \in ForeignDetails}

Snapshots ==
    {sn \in UNION {[1..n -> WrittenEntries \cup ForeignEntries] : n \in 0..MaxSnapshot} :
        \A i, j \in 1..Len(sn) : sn[i].path = sn[j].path => i = j}

InitLoadVars ==
    /\ snapshot \in Snapshots
    /\ loadIdx = 1
    /\ loadPc = "loop"
    /\ entries = <<>>
    /\ query = None /\ limit = 0 /\ scored = <<>> /\ result = <<>>

\* one iteration of: for _, v in raw.items()
LoadEntry ==
    /\ loadPc = "loop" /\ loadIdx <= Len(snapshot)
    /\ ~LoadRaises(snapshot[loadIdx].v)
    /\ entries' = Append(entries, LoadedEntry(snapshot[loadIdx].v))
    /\ loadIdx' = loadIdx + 1
    /\ UNCHANGED <<snapshot, loadPc>>

\* an iteration that ends in TypeError or KeyError: the constructor is left by
\* the exception
RaiseLoad ==
    /\ loadPc = "loop" /\ loadIdx <= Len(snapshot)
    /\ LoadRaises(snapshot[loadIdx].v)
    /\ loadPc' = "raised"
    /\ UNCHANGED <<snapshot, loadIdx, entries>>

\* the end of the constructor
FinishLoad ==
    /\ loadPc = "loop" /\ loadIdx > Len(snapshot)
    /\ loadPc' = "done"
    /\ UNCHANGED <<snapshot, loadIdx, entries>>

NextLoad ==
    \/ LoadEntry /\ UNCHANGED <<cfgVars, mapVars, query, limit, scored, result, fmtVars, inlineVars, coreVars>>
    \/ RaiseLoad /\ UNCHANGED <<cfgVars, mapVars, query, limit, scored, result, fmtVars, inlineVars, coreVars>>
    \/ FinishLoad /\ UNCHANGED <<cfgVars, mapVars, query, limit, scored, result, fmtVars, inlineVars, coreVars>>

InitLoad ==
    /\ InitLoadVars /\ IdleConfig /\ config_map = EmptyMap /\ IdleMap
    /\ IdleFormat /\ IdleInline /\ IdleCore

SpecLoad == InitLoad /\ [][NextLoad]_vars

(***************************************************************************)
(* Claims about DocSearch.__init__                                         *)
(***************************************************************************)
ListKeys == {"sections", "members", "properties", "parameters"}

\* C15: every record parse_map has written is loaded verbatim: title, lib,
\* kind, description, example, doc_url and signature are equal, and every
\* Item list the record's details stores (sections, members, properties,
\* parameters) is in the loaded entry with the same values in the same order.
LoadedVerbatim ==
    loadPc = "done" =>
        \A k \in 1..Len(snapshot) :
            snapshot[k] \in WrittenEntries =>
                LET v == snapshot[k].v
                    e == entries[k]
                IN /\ e.title = v.title /\ e.lib = v.lib /\ e.kind = v.kind
                   /\ e.description = v.description /\ e.example = v.example
                   /\ e.doc_url = v.doc_url
                   /\ e.details.signature = v.details.signature
                   /\ \A key \in ListKeys \cap DOMAIN v.details :
                        /\ key \in DOMAIN e.details
                        /\ e.details[key] = v.details[key]

\* C17: the load never raises because of an unknown or absent nested field,
\* and every entry of the snapshot is loaded.
LoadNeverRaises ==
    /\ loadPc # "raised"
    /\ loadPc = "done" => Len(entries) = Len(snapshot)

(***************************************************************************)
(* Claims about the index under search                                     *)
(***************************************************************************)
\* C18: no search call writes to the index: every call leaves the list of
\* entries and every field of every entry as they were, and a call with the
\* query and limit of the call before it returns the same result.
SearchReadOnly ==
    [][/\ entries' = entries
       /\ (Searched /\ query' = query /\ limit' = limit) => result' = result]_vars

\* C18 witness: a search for PLAY with limit 2 on the index Player, pause,
\* play has returned play and Player, and the index still is Player, pause,
\* play.
IndexKeptAfterSearch ==
    /\ query = "PLAY" /\ limit = 2
    /\ result = <<EPlay, EPlayer>>
    /\ entries = <<EPlayer, EPause, EPlay>>

(***************************************************************************)
(* format_doc_info: the rendering of one entry                             *)
(***************************************************************************)
MaxSections == 2

\* html.escape(c) of one character, quote=True
EscapeChar(c) ==
    CASE c = "&" -> "&amp;"
      [] c = "<" -> "&lt;"
      [] c = ">" -> "&gt;"
      [] c = "\"" -> "&quot;"
      [] c = "'" -> "&#x27;"
      [] OTHER -> c

\* html.escape(s)
RECURSIVE Escape(_)
Escape(s) ==
    IF s = "" THEN "" ELSE EscapeChar(CharAt(s, 1)) \o Escape(SubSeq(s, 2, Len(s)))

\* the bullet and the dash of the item lines (U+2022 and U+2014 in the code)
Bullet == "*"
Dash == "~"

\* the truth value of an optional string
TruthyStr(x) == x # None /\ x # ""

\* str(x) in an f-string
Str(x) == IF x = None THEN "None" ELSE x

\* _code(text)
_code(text) == "<code>" \o Escape(Strip(text)) \o "</code>"

\* lines 60-63
HeaderOf(r) ==
    "<b>" \o Escape(r.title) \o "</b> <i>(" \o r.kind \o ", " \o r.lib \o ")</i>\n"
    \o (IF TruthyStr(r.details.signature)
        THEN "<pre>" \o Escape(r.details.signature) \o "</pre>"
        ELSE "")

\* lines 67-68
DescriptionPart(r) ==
    IF r.description # "" THEN <<Escape(r.description)>> ELSE <<>>

\* lines 73-76
ExampleUnlabelled(r) ==
    IF r.example # EmptyMap /\ TruthyStr(DictGet(r.example, "code"))
    THEN <<"<b>Example:</b>\n", _code(r.example.code)>>
    ELSE <<>>
ExamplePart(r) ==
    IF r.example # EmptyMap /\ TruthyStr(DictGet(r.example, "code"))
    THEN LET lang == IF "language" \in DOMAIN r.example
                     THEN Str(r.example.language) ELSE ""
         IN <<"<b>Example (" \o lang \o "):</b>\n", _code(r.example.code)>>
    ELSE <<>>

\* lines 93-96: the bullets of one item of a RAISES section
RaisesBullets(ds) ==
    LET lines == SplitLines(ds)
        kept == SelectSeq([k \in 1..Len(lines) |-> Strip(lines[k])],
                          LAMBDA line : line # "")
    IN [k \in 1..Len(kept) |-> Bullet \o " " \o Escape(kept[k])]

\* lines 98-103: the bullet of one item of another section
ItemBullet(name, tp, ds) ==
    Bullet \o " <code>" \o Escape(name) \o "</code>"
    \o (IF tp # "" THEN ": <i>" \o Escape(tp) \o "</i>" ELSE "")
    \o (IF ds # "" THEN " " \o Dash \o " " \o Escape(ds) ELSE "")

\* lines 87-103: the loop over the items of one section
RECURSIVE ItemsPart(_, _)
ItemsPart(items, title) ==
    IF items = <<>> THEN <<>>
    ELSE LET item == items[1]
             name == OrEmpty(DictGet(item, "name"))
             tp == OrEmpty(DictGet(item, "type"))
             ds == Strip(OrEmpty(DictGet(item, "description")))
         IN (IF title = "RAISES" THEN RaisesBullets(ds)
             ELSE <<ItemBullet(name, tp, ds)>>)
            \o ItemsPart(Tail(items), title)

\* line 82: the test that skips a section
SkipNoSection(title, flag) == FALSE
SkipSection(title, flag) == title = "RAISES" /\ ~flag

\* lines 79-103
RECURSIVE SectionsPart(_, _)
SectionsPart(secs, flag) ==
    IF ~Truthy(secs) THEN <<>>
    ELSE LET s == secs[1]
             title == Upper(s.title)
         IN (IF SkipSection(title, flag) THEN <<>>
             ELSE <<"<b>" \o Escape(s.title) \o "</b>">> \o ItemsPart(s.items, title))
            \o SectionsPart(Tail(secs), flag)

\* lines 109-114
MemberBullet(m) ==
    Bullet \o " <code>" \o Escape(m.name) \o "</code>"
    \o (IF TruthyStr(m.value) THEN " = <code>" \o Escape(m.value) \o "</code>" ELSE "")
    \o (IF TruthyStr(m.description) THEN " " \o Dash \o " " \o Escape(m.description) ELSE "")

\* lines 106-114
MembersPart(r) ==
    IF Truthy(r.details.members)
    THEN <<"<b>Members:</b>">>
         \o [k \in 1..Len(r.details.members) |-> MemberBullet(r.details.members[k])]
    ELSE <<>>

\* lines 120-125
PropertyBullet(p) ==
    Bullet \o " <code>" \o Escape(p.name) \o "</code>"
    \o (IF TruthyStr(p.type) THEN " -> <i>" \o Escape(p.type) \o "</i>" ELSE "")
    \o (IF TruthyStr(p.description) THEN " " \o Dash \o " " \o Escape(p.description) ELSE "")

\* lines 117-125
PropertiesPart(r) ==
    IF Truthy(r.details.properties)
    THEN <<"<b>Properties:</b>">>
         \o [k \in 1..Len(r.details.properties) |->
                PropertyBullet(r.details.properties[k])]
    ELSE <<>>

\* lines 70 and 127
Quote(header, content) ==
    header \o "\n" \o "<blockquote expandable>" \o Join("\n", content) \o "</blockquote>"

\* format_doc_info(r, include_raises)
format_doc_info(r, flag) ==
    IF r.description # "" /\ r.kind = "misc"
    THEN Quote(HeaderOf(r), DescriptionPart(r))
    ELSE Quote(HeaderOf(r),
               DescriptionPart(r) \o ExamplePart(r)
               \o SectionsPart(r.details.sections, flag)
               \o MembersPart(r) \o PropertiesPart(r))

\* ---- the entries rendered
SParameters ==
    [title |-> "PARAMETERS",
     items |-> <<Item("chat_id", "int", "Chat <id>", None), [name |-> "x"]>>]
SRaises ==
    [title |-> "RAISES",
     items |-> <<Item("", None, "NoActiveGroupCall\n \n NotInCall", None)>>]
SRaisesTitle ==
    [title |-> "Raises",
     items |-> <<Item("NotInCall", None, "not in call", None),
                 Item("Error", None, "", None)>>]
SReturns ==
    [title |-> "RETURNS", items |-> <<Item("", "int", "the\nid", None)>>]
SectionPool == {SParameters, SRaises, SRaisesTitle, SReturns}

\* the lists of up to MaxSections sections
SectionLists ==
    {SubSeq(f, 1, Len(f)) : f \in UNION {[1..n -> SectionPool] : n \in 0..MaxSections}}

\* an empty list is stored as None: search.py lines 56-66
NoneIfEmpty(list) == IF list = <<>> THEN None ELSE list

FormatExamples ==
    {EmptyMap,
     [language |-> "python", code |-> " play() \n"],
     [language |-> "c<u>", code |-> "a < b"],
     [language |-> None, code |-> ""]}

FormatMembers ==
    {<<>>, <<Item("MIC", None, "Mic", "1"), Item("SPK", None, "", None)>>}

FormatProperties ==
    {<<>>, <<Item("chat_id", "int", "Chat", None), Item("st", None, "", None)>>}

\* the entry of one choice of its fields
FormatRecord(kind, description, example, signature, sections, members, properties) ==
    [title |-> "play", lib |-> "PyTgCalls", kind |-> kind,
     description |-> description, example |-> example,
     details |-> Details(signature, NoneIfEmpty(sections), NoneIfEmpty(members),
                         NoneIfEmpty(properties)),
     doc_url |-> "https://pytgcalls.github.io/PyTgCalls/play"]

InitFormatVars ==
    /\ \E kind \in {"method", "misc"},
          description \in {"", "Play & go"},
          example \in FormatExamples,
          signature \in {None, "play(x: int) -> None"},
          sections \in SectionLists,
          members \in FormatMembers,
          properties \in FormatProperties :
            fmtRecord = FormatRecord(kind, description, example, signature,
                                     sections, members, properties)
    /\ include_raises \in BOOLEAN
    /\ output = None

\* the call format_doc_info(r, include_raises)
Format ==
    /\ output = None
    /\ output' = format_doc_info(fmtRecord, include_raises)
    /\ UNCHANGED <<fmtRecord, include_raises>>

NextFormat ==
    Format /\ UNCHANGED <<cfgVars, mapVars, searchVars, loadVars, inlineVars, coreVars>>

InitFormat ==
    /\ InitFormatVars /\ IdleConfig /\ config_map = EmptyMap /\ IdleMap
    /\ IdleSearch /\ IdleLoad /\ IdleInline /\ IdleCore

SpecFormat == InitFormat /\ [][NextFormat]_vars

(***************************************************************************)
(* Claims about format_doc_info                                            *)
(***************************************************************************)
\* the lines of the quoted block of the output
QuotedText ==
    LET rest == After("<blockquote expandable>", output)
    IN SubSeq(rest, 1, Len(rest) - Len("</blockquote>"))
QuotedLines == SplitLines(QuotedText)

BulletLines == SelectSeq(QuotedLines, LAMBDA line : StartsWith(line, Bullet \o " "))
HeaderLines(title) ==
    SelectSeq(QuotedLines, LAMBDA line : line = "<b>" \o Escape(title) \o "</b>")

TitledRaises(s) == Upper(s.title) = "RAISES"
SectionsGiven == ListOrEmpty(fmtRecord.details.sections)
SameTitle(title) == SelectSeq(SectionsGiven, LAMBDA s : s.title = title)

RECURSIVE SumOf(_)
SumOf(numbers) ==
    IF numbers = <<>> THEN 0 ELSE numbers[1] + SumOf(Tail(numbers))

NonEmptyLines(text) == SelectSeq(SplitLines(text), LAMBDA line : line # "")
NotBlankLines(text) == SelectSeq(SplitLines(text), LAMBDA line : Strip(line) # "")

\* the bullets a section is to give, with Counted(description) lines counted
\* for an item of a RAISES section
BulletsDue(s, Counted(_)) ==
    IF TitledRaises(s)
    THEN IF include_raises
         THEN SumOf([i \in 1..Len(s.items) |->
                        Len(Counted(OrEmpty(DictGet(s.items[i], "description"))))])
         ELSE 0
    ELSE Len(s.items)

\* the rule of the sections for the rendered entry
SectionRule(Counted(_)) ==
    /\ \A k \in 1..Len(SectionsGiven) :
        LET s == SectionsGiven[k]
        IN /\ Len(HeaderLines(s.title)) =
                IF TitledRaises(s) /\ ~include_raises THEN 0
                ELSE Len(SameTitle(s.title))
           /\ (TitledRaises(s) /\ include_raises) =>
                \A i \in 1..Len(s.items) :
                    LET lines == NotBlankLines(OrEmpty(DictGet(s.items[i], "description")))
                    IN \A n \in 1..Len(lines) :
                        \E b \in 1..Len(BulletLines) :
                            BulletLines[b] = Bullet \o " " \o Escape(Strip(lines[n]))
    /\ Len(BulletLines) =
         SumOf([k \in 1..Len(SectionsGiven) |-> BulletsDue(SectionsGiven[k], Counted)])
         + Len(ListOrEmpty(fmtRecord.details.members))
         + Len(ListOrEmpty(fmtRecord.details.properties))

\* C13 as stated: for every record the output without include_raises has
\* neither the header nor a bullet of a section titled RAISES ignoring case,
\* the output with include_raises has one bullet per non-empty line of each
\* RAISES item description, and every other section is in both outputs.
RaisesOnRequestEveryRecord ==
    output # None => SectionRule(NonEmptyLines)

\* C13 amended: the same for every record that is not a misc record with a
\* description, with one bullet per line that is not blank.
RaisesOnRequest ==
    (output # None /\ ~(fmtRecord.kind = "misc" /\ fmtRecord.description # ""))
        => SectionRule(NotBlankLines)

\* C13 witness: a method with a RAISES section of three lines, the second
\* blank, after a PARAMETERS section, rendered with include_raises.
RaisesRendered ==
    /\ output # None /\ include_raises
    /\ fmtRecord.kind = "method"
    /\ SectionsGiven = <<SParameters, SRaises>>
    /\ Len(HeaderLines("RAISES")) = 1
    /\ Len(BulletLines) >= 4

\* the record has example code, and the label of its block
HasExampleCode ==
    fmtRecord.example # EmptyMap /\ fmtRecord.example.code # ""
ExampleLabel == "<b>Example (" \o fmtRecord.example.language \o "):</b>"

\* the lines of the sections, the members and the properties
SectionLine(line) ==
    \/ StartsWith(line, Bullet \o " ")
    \/ line \in {"<b>Members:</b>", "<b>Properties:</b>"}
    \/ \E k \in 1..Len(SectionsGiven) :
            line = "<b>" \o Escape(SectionsGiven[k].title) \o "</b>"

\* the example block is in the output once, labeled with the language, after
\* the description and before every section
ExamplePlaced ==
    LET lines == QuotedLines
        at == {k \in 1..Len(lines) : lines[k] = ExampleLabel}
    IN /\ Cardinality(at) = 1
       /\ \A e \in at :
            /\ e + 2 <= Len(lines)
            /\ lines[e + 2] = "<code>" \o Escape(Strip(fmtRecord.example.code)) \o "</code>"
            /\ fmtRecord.description # "" =>
                    e = 2 /\ lines[1] = Escape(fmtRecord.description)
            /\ \A k \in 1..Len(lines) : SectionLine(lines[k]) => k > e + 2

\* C26 as stated: for every record that has example code, whatever its kind,
\* the output holds the example block labeled with its language after the
\* description and before every section.
ExampleForEveryKind ==
    (output # None /\ HasExampleCode) => ExamplePlaced

\* C26 amended: the same for every record that has example code and is not a
\* misc record with a description.
ExampleAfterDescription ==
    (output # None /\ HasExampleCode
        /\ ~(fmtRecord.kind = "misc" /\ fmtRecord.description # ""))
        => ExamplePlaced

\* C26 witness: a method with a description, python example code and the
\* sections PARAMETERS and RETURNS has been rendered with the example block
\* between the description and the header of PARAMETERS.
ExampleRendered ==
    /\ output # None /\ HasExampleCode
    /\ fmtRecord.kind = "method" /\ fmtRecord.description = "Play & go"
    /\ fmtRecord.example.language = "python"
    /\ SectionsGiven = <<SParameters, SReturns>>
    /\ Contains("Play &amp; go\n<b>Example (python):</b>\n\n<code>play()</code>\n<b>PARAMETERS</b>",
                output)

\* the markup format_doc_info writes itself, and what html.escape writes
Markup ==
    {"<b>", "</b>", "<i>", "</i>", "<pre>", "</pre>", "<code>", "</code>",
     "<blockquote expandable>", "</blockquote>", " -> <i>"}
Entities == {"&amp;", "&lt;", "&gt;", "&quot;", "&#x27;"}

\* position i of the output lies in a piece of the formatter's own markup
InMarkup(i) ==
    \E t \in Markup : \E j \in (i - Len(t) + 1)..i :
        j >= 1 /\ j + Len(t) - 1 <= Len(output) /\ SubSeq(output, j, j + Len(t) - 1) = t

\* C14: every text of the record that format_doc_info places in its output
\* is HTML-escaped: outside the formatter's own markup the output has no
\* <, no >, no quote, and no & that does not begin an escape.
OutputEscaped ==
    output # None =>
        \A i \in 1..Len(output) :
            LET c == CharAt(output, i)
            IN /\ c \in {"<", ">"} => InMarkup(i)
               /\ c = "&" => \E e \in Entities : StartsWith(SubSeq(output, i, Len(output)), e)
               /\ c \notin {"\"", "'"}

(***************************************************************************)
(* inline_search: the handler of an inline query                           *)
(***************************************************************************)
MaxResults == 2

\* the length above which a text is cut, and the length kept of it
LengthLimit == 4096
KeptLength == 4000

\* the text appended to a cut text
TruncationNotice ==
    "...\n\n<i>Documentation was truncated due to length. View full documentation for complete details.</i>"

\* s * n
RECURSIVE Repeat(_, _)
Repeat(s, n) ==
    IF n = 0 THEN ""
    ELSE IF n % 2 = 0 THEN LET half == Repeat(s, n \div 2) IN half \o half
    ELSE s \o Repeat(s, n - 1)

\* a rendered text of n characters
DocText(n) ==
    LET head == "<b>play</b>\n"
    IN IF n <= Len(head) THEN SubSeq(head, 1, n)
       ELSE head \o Repeat("x", n - Len(head))

\* the pages of the documentation the search may return
InlinePaths ==
    {"/NTgCalls/Device.xml", "/PyTgCalls/play.xml", "/PyTgCalls/Stream.xml",
     "/PyTgCalls/Call.xml", "/PyTgCalls/Empty.xml", "/PyTgCalls/Bad"}

\* await format_doc_info(result.path): the rendered page, "" for a page
\* without information, None for a call that raises
RenderedDoc(path) ==
    CASE path = "/NTgCalls/Device.xml" -> DocText(12)
      [] path = "/PyTgCalls/play.xml" -> DocText(LengthLimit + 1)
      [] path = "/PyTgCalls/Stream.xml" -> DocText(LengthLimit)
      [] path = "/PyTgCalls/Call.xml" -> DocText(LengthLimit + KeptLength)
      [] path = "/PyTgCalls/Empty.xml" -> ""
      [] OTHER -> None

\* a SearchResult of search_engine.search
SearchResult(path) == [path |-> path, title |-> path]

\* the pages of the lists search_engine.search(query, limit=20) may return:
\* up to MaxResults different pages
PathLists ==
    {SubSeq(f, 1, Len(f)) :
        f \in {g \in UNION {[1..n -> InlinePaths] : n \in 0..MaxResults} :
                \A i, j \in DOMAIN g : i # j => g[i] # g[j]}}

InlineQueries == {"", " ", "play", " device "}

\* lines 177-178
Truncated(full_doc) ==
    IF Len(full_doc) > LengthLimit
    THEN SubSeq(full_doc, 1, KeptLength) \o TruncationNotice
    ELSE full_doc

\* s.strip("/")
StripSlash(s) == RStripSet(LStripSet(s, {"/"}), {"/"})

\* lines 181-193
ArticleUrl(path) ==
    LET doc_path == StripSlash(path)
        is_ntgcalls == Contains("ntgcalls", Lower(doc_path))
        cut == IF is_ntgcalls /\ StartsWith(doc_path, "NTgCalls/")
               THEN SubSeq(doc_path, Len("NTgCalls/") + 1, Len(doc_path))
               ELSE IF ~is_ntgcalls /\ StartsWith(doc_path, "PyTgCalls/")
               THEN SubSeq(doc_path, Len("PyTgCalls/") + 1, Len(doc_path))
               ELSE doc_path
        bare == IF EndsWith(cut, ".xml") THEN SubSeq(cut, 1, Len(cut) - 4) ELSE cut
    IN "https://pytgcalls.github.io/"
       \o (IF is_ntgcalls THEN "NTgCalls" ELSE "PyTgCalls") \o "/" \o bare

\* lines 200-213: the article of one result
Article(res, parse) == [title |-> res.title, text |-> parse, url |-> ArticleUrl(res.path)]

InitInlineVars ==
    /\ inlineQuery \in InlineQueries
    /\ search_results = <<>>
    /\ inlineIdx = 1
    /\ handed = <<>>
    /\ results = <<>>
    /\ inlinePc = "idle"

\* lines 145-147: a query of white space only is not answered
IgnoreBlank ==
    /\ inlinePc = "idle"
    /\ Strip(inlineQuery) = ""
    /\ inlinePc' = "returned"
    /\ UNCHANGED <<inlineQuery, search_results, inlineIdx, handed, results>>

\* lines 149-168: the search without a result is answered by one article
AnswerNotFound ==
    /\ inlinePc = "idle"
    /\ Strip(inlineQuery) # ""
    /\ search_results' = <<>>
    /\ results' = <<[title |-> "No Results Found",
                     text |-> "No documentation found for: " \o Strip(inlineQuery),
                     url |-> None]>>
    /\ inlinePc' = "answered"
    /\ UNCHANGED <<inlineQuery, inlineIdx, handed>>

\* lines 149-170: the search with results starts the loop
StartLoop ==
    /\ inlinePc = "idle"
    /\ Strip(inlineQuery) # ""
    /\ \E found \in PathLists \ {<<>>} :
            search_results' = [k \in 1..Len(found) |-> SearchResult(found[k])]
    /\ inlinePc' = "loop"
    /\ UNCHANGED <<inlineQuery, inlineIdx, handed, results>>

\* lines 173-175 and 216-218: a page without text, or an exception, is skipped
SkipResult ==
    /\ inlinePc = "loop" /\ inlineIdx <= Len(search_results)
    /\ RenderedDoc(search_results[inlineIdx].path) \in {"", None}
    /\ inlineIdx' = inlineIdx + 1
    /\ UNCHANGED <<inlineQuery, search_results, handed, results, inlinePc>>

\* lines 173-214: the text is cut, handed to c.parseTextEntities and, parsed,
\* becomes an article
ParsedResult ==
    /\ inlinePc = "loop" /\ inlineIdx <= Len(search_results)
    /\ RenderedDoc(search_results[inlineIdx].path) \notin {"", None}
    /\ LET full_doc == Truncated(RenderedDoc(search_results[inlineIdx].path))
       IN /\ handed' = Append(handed, full_doc)
          /\ results' = Append(results, Article(search_results[inlineIdx], full_doc))
    /\ inlineIdx' = inlineIdx + 1
    /\ UNCHANGED <<inlineQuery, search_results, inlinePc>>

\* lines 173-198: the text is cut and handed to c.parseTextEntities, which
\* answers with an Error
RejectedResult ==
    /\ inlinePc = "loop" /\ inlineIdx <= Len(search_results)
    /\ RenderedDoc(search_results[inlineIdx].path) \notin {"", None}
    /\ handed' = Append(handed, Truncated(RenderedDoc(search_results[inlineIdx].path)))
    /\ inlineIdx' = inlineIdx + 1
    /\ UNCHANGED <<inlineQuery, search_results, results, inlinePc>>

\* lines 220-221
ReturnWithout ==
    /\ inlinePc = "loop" /\ inlineIdx > Len(search_results)
    /\ results = <<>>
    /\ inlinePc' = "returned"
    /\ UNCHANGED <<inlineQuery, search_results, inlineIdx, handed, results>>

\* lines 223-226
AnswerResults ==
    /\ inlinePc = "loop" /\ inlineIdx > Len(search_results)
    /\ results # <<>>
    /\ inlinePc' = "answered"
    /\ UNCHANGED <<inlineQuery, search_results, inlineIdx, handed, results>>

NextInline ==
    \/ IgnoreBlank /\ UNCHANGED <<cfgVars, mapVars, searchVars, loadVars, fmtVars, coreVars>>
    \/ AnswerNotFound /\ UNCHANGED <<cfgVars, mapVars, searchVars, loadVars, fmtVars, coreVars>>
    \/ StartLoop /\ UNCHANGED <<cfgVars, mapVars, searchVars, loadVars, fmtVars, coreVars>>
    \/ SkipResult /\ UNCHANGED <<cfgVars, mapVars, searchVars, loadVars, fmtVars, coreVars>>
    \/ ParsedResult /\ UNCHANGED <<cfgVars, mapVars, searchVars, loadVars, fmtVars, coreVars>>
    \/ RejectedResult /\ UNCHANGED <<cfgVars, mapVars, searchVars, loadVars, fmtVars, coreVars>>
    \/ ReturnWithout /\ UNCHANGED <<cfgVars, mapVars, searchVars, loadVars, fmtVars, coreVars>>
    \/ AnswerResults /\ UNCHANGED <<cfgVars, mapVars, searchVars, loadVars, fmtVars, coreVars>>

InitInline ==
    /\ InitInlineVars /\ IdleConfig /\ config_map = EmptyMap /\ IdleMap
    /\ IdleSearch /\ IdleLoad /\ IdleFormat /\ IdleCore

SpecInline == InitInline /\ [][NextInline]_vars

(***************************************************************************)
(* Claims about inline_search                                              *)
(***************************************************************************)
\* C20: every documentation text the handler hands to the transport is at
\* most 4096 long, the cut text with its notice included.
HandedWithinLimit ==
    \A k \in 1..Len(handed) : Len(handed[k]) <= LengthLimit

(***************************************************************************)
(* Search (src/core/search.py): the search over the raw markup of the map   *)
(***************************************************************************)
\* _load_map, line 69: the key of a page is its path without leading slashes
MapKey(path) == LStripSet(path, {"/"})

\* str.split(): the words between runs of white space
RECURSIVE SplitWords(_)
SplitWords(s) ==
    LET t == LStripSet(s, {" ", "\n", "\t"})
    IN IF t = "" THEN <<>>
       ELSE LET word == CHOOSE w \in {SubSeq(t, 1, n) : n \in 1..Len(t)} :
                            /\ \A i \in 1..Len(w) : ~IsSpace(CharAt(w, i))
                            /\ Len(w) = Len(t) \/ IsSpace(CharAt(t, Len(w) + 1))
            IN <<word>> \o SplitWords(SubSeq(t, Len(word) + 1, Len(t)))

\* the longest prefix of s without a character of cs: what [^...]* takes
RECURSIVE UpTo(_, _)
UpTo(cs, s) ==
    IF s = "" \/ CharAt(s, 1) \in cs THEN ""
    ELSE CharAt(s, 1) \o UpTo(cs, SubSeq(s, 2, Len(s)))

\* all(term in s for term in terms) and any(term in s for term in terms)
AllIn(terms, s) == \A k \in 1..Len(terms) : Contains(terms[k], s)
AnyIn(terms, s) == \E k \in 1..Len(terms) : Contains(terms[k], s)

\* line 74: re.search(r'<h1>(.*?)</h1>', content, re.IGNORECASE), group 1 of
\* the leftmost match or None; s is the content from some position on and lc
\* its lower-case form; the dot takes no line feed
RECURSIVE TitleMatch(_, _)
TitleMatch(s, lc) ==
    IF ~Contains("<h1>", lc) THEN None
    ELSE LET i == IndexOf("<h1>", lc)
             rest == SubSeq(lc, i + 4, Len(lc))
         IN IF Contains("</h1>", rest) /\ ~Contains("\n", Before("</h1>", rest))
            THEN SubSeq(s, i + 4, i + 3 + Len(Before("</h1>", rest)))
            ELSE TitleMatch(SubSeq(s, i + 1, Len(s)), SubSeq(lc, i + 1, Len(lc)))

\* lines 72-75
_extract_title(content) ==
    LET group == TitleMatch(content, Lower(content))
    IN IF group = None THEN "" ELSE Strip(group)

\* the common head of the two patterns of lines 132 and 148,
\* <ref[^>]*>([^<]+)</ref>\s*, tried at the start of t: <<group 1, the text
\* after the match>>, or <<>> without a match
RefMatch(t) ==
    LET attrs == SubSeq(t, 5, Len(t))
        body == After(">", attrs)
        name == UpTo({"<"}, body)
        tail == SubSeq(body, Len(name) + 1, Len(body))
    IN IF Contains(">", attrs) /\ name # "" /\ StartsWith(tail, "</ref>")
       THEN <<name, LStripSet(SubSeq(tail, 7, Len(tail)), {" ", "\n", "\t"})>>
       ELSE <<>>

\* line 132: re.search(r'<ref[^>]*>([^<]+)</ref>\s*\(([^)]*)\)', ...) on the
\* lower-case text: <<name, parameters>> of the leftmost match, <<>> without
RECURSIVE method_match(_)
method_match(t) ==
    IF ~Contains("<ref", t) THEN <<>>
    ELSE LET i == IndexOf("<ref", t)
             r == RefMatch(SubSeq(t, i, Len(t)))
         IN IF r # <<>> /\ StartsWith(r[2], "(") /\ Contains(")", r[2])
            THEN <<r[1], Before(")", SubSeq(r[2], 2, Len(r[2])))>>
            ELSE method_match(SubSeq(t, i + 1, Len(t)))

\* line 148: re.findall(r'<ref[^>]*>([^<]+)</ref>\s*:\s*([^<,]+)', ...) on the
\* lower-case text, each pair stripped as lines 150-151 do; the type is the
\* non-empty run up to the next "<" or ",", and the scan goes on behind it
RECURSIVE param_matches(_)
param_matches(t) ==
    IF ~Contains("<ref", t) THEN <<>>
    ELSE LET i == IndexOf("<ref", t)
             r == RefMatch(SubSeq(t, i, Len(t)))
             after == IF r # <<>> /\ StartsWith(r[2], ":")
                      THEN SubSeq(r[2], 2, Len(r[2])) ELSE ""
             span == UpTo({"<", ","}, after)
         IN IF span # ""
            THEN <<<<Strip(r[1]), Strip(span)>>>>
                     \o param_matches(SubSeq(after, Len(span) + 1, Len(after)))
            ELSE param_matches(SubSeq(t, i + 1, Len(t)))

\* line 182: re.findall(r'<syntax-highlight[^>]*>(.*?)</syntax-highlight>',
\* text, re.DOTALL): the tag is matched in the case it is written in
RECURSIVE code_blocks(_)
code_blocks(s) ==
    IF ~Contains("<syntax-highlight", s) THEN <<>>
    ELSE LET i == IndexOf("<syntax-highlight", s)
             attrs == SubSeq(s, i + 17, Len(s))
             body == After(">", attrs)
         IN IF Contains(">", attrs) /\ Contains("</syntax-highlight>", body)
            THEN <<Before("</syntax-highlight>", body)>>
                     \o code_blocks(After("</syntax-highlight>", body))
            ELSE code_blocks(SubSeq(s, i + 1, Len(s)))

\* lines 133-145: the bonus of the method signature
MethodBonus(m, exact_query, terms) ==
    IF m = <<>> THEN 0
    ELSE IF exact_query = m[1] THEN 95
    ELSE IF AllIn(terms, m[1]) THEN 80
    ELSE IF AnyIn(terms, m[2]) THEN 60
    ELSE 0

\* lines 153-161: the bonus of one parameter
ParamBonus(p, exact_query, terms) ==
    IF exact_query = p[1] THEN 90
    ELSE IF AllIn(terms, p[1]) THEN 70
    ELSE IF Contains(exact_query, p[2]) THEN 60
    ELSE 0

\* lines 149-161: the bonuses of all parameters
RECURSIVE ParamBonuses(_, _, _)
ParamBonuses(ps, exact_query, terms) ==
    IF ps = <<>> THEN 0
    ELSE ParamBonus(ps[1], exact_query, terms)
             + ParamBonuses(Tail(ps), exact_query, terms)

\* lines 128-161: the title bonus and the bonuses of the signature and of
\* the parameters
Matched(text_lower, title_lower, exact_query, terms) ==
    (IF title_lower # "" /\ Contains(exact_query, title_lower) THEN 100 ELSE 0)
        + MethodBonus(method_match(text_lower), exact_query, terms)
        + ParamBonuses(param_matches(text_lower), exact_query, terms)

\* lines 164-168: without a score yet, the terms are looked for in the title
ByTitle(score, title_lower, terms) ==
    IF score = 0 /\ title_lower # ""
    THEN IF AllIn(terms, title_lower) THEN 50
         ELSE IF AnyIn(terms, title_lower) THEN 30 ELSE 0
    ELSE score

\* lines 171-175: without a score yet, the terms are looked for in the text
ByText(score, text_lower, terms) ==
    IF score = 0
    THEN IF AllIn(terms, text_lower) THEN 40
         ELSE IF AnyIn(terms, text_lower) THEN 20 ELSE 0
    ELSE score

\* lines 178-179: the boost of a method file
Boosted(score, is_method) == IF is_method /\ score > 0 THEN score + 10 ELSE score

\* lines 183-186: the boost of the first code block with the exact query
WithCode(score, blocks, exact_query) ==
    IF \E k \in 1..Len(blocks) : Contains(exact_query, Lower(blocks[k]))
    THEN score + 20 ELSE score

\* lines 119-186 on the lower-case text, the lower-case title (empty without
\* a title) and the exact query
ScoreParts(text_lower, title_lower, exact_query, terms, is_method, blocks) ==
    WithCode(Boosted(ByText(ByTitle(Matched(text_lower, title_lower, exact_query, terms),
                                    title_lower, terms),
                            text_lower, terms),
                     is_method),
             blocks, exact_query)

\* lines 119-186: the score before the return statement
ScoreSum(text, terms, is_method) ==
    ScoreParts(Lower(text), Lower(_extract_title(text)), Lower(Join(" ", terms)),
             terms, is_method, code_blocks(text))

\* line 188 without the cap
ReturnUncapped(sum) == sum

\* line 188: return min(100, score)
ReturnScore(sum) == IF sum < 100 THEN sum ELSE 100

\* lines 117-188
_calculate_score(text, terms, is_method) == ReturnScore(ScoreSum(text, terms, is_method))

\* os.path.basename(path)
RECURSIVE Basename(_)
Basename(path) == IF Contains("/", path) THEN Basename(After("/", path)) ELSE path

\* os.path.splitext(name)[0]: the name up to its last dot, leading dots kept
SplitextRoot(name) ==
    LET dots == {i \in 1..Len(name) : /\ CharAt(name, i) = "."
                                      /\ \E j \in 1..(i - 1) : CharAt(name, j) # "."}
    IN IF dots = {} THEN name
       ELSE SubSeq(name, 1, (CHOOSE i \in dots : \A j \in dots : j <= i) - 1)

\* the characters of the paths in the order of their code points
CodePoints == " ./0123456789ABCDEFGHIJKLMNOPQRSTUVWXYZ_abcdefghijklmnopqrstuvwxyz"
Ord(c) == CHOOSE i \in 1..Len(CodePoints) : CharAt(CodePoints, i) = c

\* a < b of two strings
RECURSIVE StrLess(_, _)
StrLess(a, b) ==
    IF b = "" THEN FALSE
    ELSE IF a = "" THEN TRUE
    ELSE IF CharAt(a, 1) = CharAt(b, 1)
         THEN StrLess(SubSeq(a, 2, Len(a)), SubSeq(b, 2, Len(b)))
         ELSE Ord(CharAt(a, 1)) < Ord(CharAt(b, 1))

\* line 381: the words of the query longer than one character
QueryTerms(q) == SelectSeq(SplitWords(Lower(Strip(q))), LAMBDA term : Len(term) > 1)

\* line 390
IsMethod(path) ==
    \E x \in {"basic method", "stream method", "advanced method"} :
        Contains(x, Lower(path))

\* lines 400-407: the title of a result
ResultTitle(path, content) ==
    LET own == _extract_title(content)
        title == IF own # "" THEN own ELSE SplitextRoot(Basename(path))
    IN IF Contains("ntgcalls", Lower(path)) THEN "[NTgCalls] " \o title
       ELSE IF Contains("pytgcalls", Lower(path)) THEN "[PyTgCalls] " \o title
       ELSE title

\* line 416: the key (-x.score, x.path) of x is below the key of y
KeyBelow(x, y) == x.score > y.score \/ (x.score = y.score /\ StrLess(x.path, y.path))

\* line 416: results.sort(key=...), a stable sort
RECURSIVE InsertResult(_, _)
InsertResult(sorted, x) ==
    IF sorted = <<>> THEN <<x>>
    ELSE IF KeyBelow(x, sorted[1]) THEN <<x>> \o sorted
    ELSE <<sorted[1]>> \o InsertResult(Tail(sorted), x)

RECURSIVE SortResults(_)
SortResults(rs) ==
    IF rs = <<>> THEN <<>>
    ELSE InsertResult(SortResults(SubSeq(rs, 1, Len(rs) - 1)), rs[Len(rs)])

\* line 417: results[:limit]
Limited(rs, n) == SubSeq(rs, 1, IF n < Len(rs) THEN n ELSE Len(rs))

\* ---- inputs
MaxPages == 2      \* pages of the map

MutePage ==
    [path |-> "/PyTgCalls/Basic Methods/mute.xml",
     content |-> "<h1>Mute</h1><ref id=\"m\">mute</ref> (<ref>chat_id</ref>: int)"
                 \o "<syntax-highlight language=\"python\">app.mute(1)</syntax-highlight>"]
DevicePage ==
    [path |-> "/NTgCalls/Device.xml",
     content |-> "<H1> Device </H1>\n<ref>name</ref>: str, <ref>is_mic</ref> :\n bool"]
NotesPage ==
    [path |-> "/Other/notes.xml",
     content |-> "<h1>Au\ndio</h1><text>Audio int</text>"]
ReadmePage ==
    [path |-> "/PyTgCalls/readme.md", content |-> "<h1>mute</h1>"]
StreamPage ==
    [path |-> "/PyTgCalls/Stream Methods/play.XML",
     content |-> "<h1>Play</h1><REF>play</REF>(<ref>s</ref>:<b>, <ref>chat_id</ref>: int)"
                 \o "<syntax-highlight>int x</syntax-highlight>"]
PagePool == {MutePage, DevicePage, NotesPage, ReadmePage, StreamPage}

RECURSIVE PageLists(_)
PageLists(n) ==
    IF n = 0 THEN {<<>>}
    ELSE PageLists(n - 1)
             \cup {Append(l, pg) : l \in PageLists(n - 1), pg \in PagePool}

DistinctPaths(l) == \A i, j \in 1..Len(l) : l[i].path = l[j].path => i = j

CoreQueries == {" ", "mute", " Mute  audio ", "str", "chat_id", "z", "play z"}

\* lines 63-69: the map as _load_map returns it
LoadMap(pages) ==
    [k \in 1..Len(pages) |-> [path |-> MapKey(pages[k].path), content |-> pages[k].content]]

InitCoreVars ==
    /\ \E pages \in {l \in PageLists(MaxPages) : DistinctPaths(l)} :
            docs_map = LoadMap(pages)
    /\ coreQuery \in CoreQueries
    /\ coreLimit \in {1, 20}
    /\ coreIdx = 1
    /\ pageScore = -1
    /\ coreResults = <<>>
    /\ corePc = "call"

\* lines 377-379: a query of white space only has no result
ReturnNothing ==
    /\ corePc = "call"
    /\ Lower(Strip(coreQuery)) = ""
    /\ corePc' = "returned"
    /\ UNCHANGED <<docs_map, coreQuery, coreLimit, coreIdx, pageScore, coreResults>>

\* lines 381-382: the terms are taken and the loop starts
EnterLoop ==
    /\ corePc = "call"
    /\ Lower(Strip(coreQuery)) # ""
    /\ corePc' = "loop"
    /\ UNCHANGED <<docs_map, coreQuery, coreLimit, coreIdx, pageScore, coreResults>>

\* lines 385-387: a path that does not end in .xml is passed over
SkipNonXml ==
    /\ corePc = "loop" /\ coreIdx <= Len(docs_map)
    /\ ~EndsWith(Lower(docs_map[coreIdx].path), ".xml")
    /\ coreIdx' = coreIdx + 1
    /\ UNCHANGED <<docs_map, coreQuery, coreLimit, pageScore, coreResults, corePc>>

\* lines 389-413: a page with a positive score becomes a result
AppendResult ==
    /\ corePc = "loop" /\ coreIdx <= Len(docs_map)
    /\ LET path == docs_map[coreIdx].path
           content == docs_map[coreIdx].content
           score == _calculate_score(content, QueryTerms(coreQuery), IsMethod(path))
       IN /\ EndsWith(Lower(path), ".xml")
          /\ score > 0
          /\ pageScore' = score
          /\ coreResults' = Append(coreResults,
                                   [path |-> path,
                                    title |-> ResultTitle(path, content),
                                    score |-> score])
    /\ coreIdx' = coreIdx + 1
    /\ UNCHANGED <<docs_map, coreQuery, coreLimit, corePc>>

\* lines 389-398: a page with the score 0 is left out
LeaveOut ==
    /\ corePc = "loop" /\ coreIdx <= Len(docs_map)
    /\ LET path == docs_map[coreIdx].path
           content == docs_map[coreIdx].content
           score == _calculate_score(content, QueryTerms(coreQuery), IsMethod(path))
       IN /\ EndsWith(Lower(path), ".xml")
          /\ score = 0
          /\ pageScore' = score
    /\ coreIdx' = coreIdx + 1
    /\ UNCHANGED <<docs_map, coreQuery, coreLimit, coreResults, corePc>>

\* lines 415-417: the results are sorted and cut to the limit
ReturnResults ==
    /\ corePc = "loop" /\ coreIdx > Len(docs_map)
    /\ coreResults' = Limited(SortResults(coreResults), coreLimit)
    /\ corePc' = "returned"
    /\ UNCHANGED <<docs_map, coreQuery, coreLimit, coreIdx, pageScore>>

NextCore ==
    \/ ReturnNothing /\ UNCHANGED <<cfgVars, mapVars, searchVars, loadVars, fmtVars, inlineVars>>
    \/ EnterLoop /\ UNCHANGED <<cfgVars, mapVars, searchVars, loadVars, fmtVars, inlineVars>>
    \/ SkipNonXml /\ UNCHANGED <<cfgVars, mapVars, searchVars, loadVars, fmtVars, inlineVars>>
    \/ AppendResult /\ UNCHANGED <<cfgVars, mapVars, searchVars, loadVars, fmtVars, inlineVars>>
    \/ LeaveOut /\ UNCHANGED <<cfgVars, mapVars, searchVars, loadVars, fmtVars, inlineVars>>
    \/ ReturnResults /\ UNCHANGED <<cfgVars, mapVars, searchVars, loadVars, fmtVars, inlineVars>>

InitCore ==
    /\ InitCoreVars /\ IdleConfig /\ config_map = EmptyMap /\ IdleMap
    /\ IdleSearch /\ IdleLoad /\ IdleFormat /\ IdleInline

SpecCore == InitCore /\ [][NextCore]_vars

(***************************************************************************)
(* Claims about Search                                                     *)
(***************************************************************************)
\* the page the loop of Search.search scored last
ScoredPage == docs_map[coreIdx - 1]
JustScored ==
    /\ corePc = "loop" /\ coreIdx > 1
    /\ EndsWith(Lower(ScoredPage.path), ".xml")

\* the exact query phrase: the terms of the query joined by one space
ExactPhrase == Lower(Join(" ", QueryTerms(coreQuery)))

\* the page scored last has a title, and the title contains the phrase
TitleHasPhrase ==
    LET title == _extract_title(ScoredPage.content)
    IN title # "" /\ Contains(ExactPhrase, Lower(title))

\* C27: every score _calculate_score returns is in 0..100, the score of
\* every result included, and it is exactly 100 for every page whose title
\* contains the exact query phrase.
ScoreWithinHundred ==
    /\ JustScored => pageScore \in 0..100
    /\ \A k \in 1..Len(coreResults) : coreResults[k].score \in 0..100
    /\ JustScored /\ TitleHasPhrase => pageScore = 100

\* a page whose bonuses add up to more than 100, the title bonus not among
\* them, was scored 100
BonusesCapped ==
    /\ JustScored
    /\ ~TitleHasPhrase
    /\ ScoreSum(ScoredPage.content, QueryTerms(coreQuery), IsMethod(ScoredPage.path)) > 100
    /\ pageScore = 100

\* the content the map holds for a path
ContentOf(path) == docs_map[CHOOSE k \in 1..Len(docs_map) : docs_map[k].path = path].content

\* C28: every result returned for a non-empty query is a page whose content
\* contains, ignoring case, at least one white-space separated word of the
\* query.
ResultsHoldAWord ==
    corePc = "returned" /\ Lower(Strip(coreQuery)) # "" =>
        LET words == SplitWords(Lower(Strip(coreQuery)))
        IN \A k \in 1..Len(coreResults) :
               \E w \in 1..Len(words) :
                   Contains(words[w], Lower(ContentOf(coreResults[k].path)))

(***************************************************************************)
(* Claims about the two retrieval paths                                    *)
(***************************************************************************)
\* C30: for every .xml page path of the map, the URL inline_search builds
\* from the key Search holds for the path equals the doc_url parse_map
\* stores for the path.
UrlsAgree ==
    mapPc = "done" =>
        \A p \in DOMAIN docs :
            EndsWith(p, ".xml") => ArticleUrl(MapKey(p)) = docs[p].doc_url

====
